---- MODULE Spec2Model ----
(***************************************************************************)
(* Coordination core of the distributed physics prototype: the Master and  *)
(* child partitionners (steadyum-partitionner), the Region Worker          *)
(* (steadyum-runner main loop) and the Region Simulators (run_simulation). *)
(*                                                                         *)
(* The physics engine is an external collaborator: one tick of it is a     *)
(* nondeterministic choice of the pose (AABB and swept AABB) of every      *)
(* dynamic body and of the contact graph among them.  Real coordinates are *)
(* modelled by integers.  HTTP calls are synchronous, so a handler and the *)
(* handlers it calls are one step; the pub/sub queue of a Worker keeps the *)
(* send order of each publisher and no order across publishers.            *)
(***************************************************************************)
EXTENDS Integers, Sequences, FiniteSets, TLC

(***************************************************************************)
(* Program constants.                                                      *)
(***************************************************************************)
DIM == 3
DEFAULT_WIDTH == 100
NUM_INTERNAL_STEPS == 10
MIN_SENDBACK_DELAY == 50

(***************************************************************************)
(* Bounds of the model.                                                    *)
(***************************************************************************)
\* largest step limit a client input may set in Spec and SpecPause
MaxLimit == 2
\* largest number of Step messages a Worker has not consumed when the client
\* sends an input or toggles the simulation
MaxQueue == 2
\* largest step limit a client input may set in SpecLong
LongLimit == 53
\* largest number of times the client pauses or resumes in SpecPause
MaxToggles == 2
\* largest step limit a client input may set in SpecFair
FairLimit == 3
\* largest number of times the client removes the scene in SpecScene
MaxRemovals == 2
\* largest number of acks and steps out of protocol in SpecScene
MaxStrays == 1

\* child partitionners that may register (one Region Worker each per scene)
Children == {1, 2}

(***************************************************************************)
(* Geometry: Aabb, SimulationBounds and its total order.                   *)
(***************************************************************************)
Axes == 1..DIM

Box(mn, mx) == [mins |-> mn, maxs |-> mx]

\* parry Aabb::contains: `other` is inside `a`, bounds included
Contains(a, other) ==
    \A k \in Axes : a.mins[k] <= other.mins[k] /\ other.maxs[k] <= a.maxs[k]

\* parry Aabb::intersects, bounds included
Intersects(a, b) ==
    \A k \in Axes : a.mins[k] <= b.maxs[k] /\ b.mins[k] <= a.maxs[k]

\* parry Aabb::contains_local_point
contains_local_point(a, p) ==
    \A k \in Axes : a.mins[k] <= p[k] /\ p[k] <= a.maxs[k]

RECURSIVE partial_cmp_from(_, _, _)
partial_cmp_from(a, b, k) ==
    IF k > DIM THEN "Equal"
    ELSE IF a.mins[k] < b.mins[k] THEN "Less"
    ELSE IF a.mins[k] > b.mins[k] THEN "Greater"
    ELSE partial_cmp_from(a, b, k + 1)

partial_cmp(a, b) == partial_cmp_from(a, b, 1)

Lt(a, b) == partial_cmp(a, b) = "Less"
Gt(a, b) == partial_cmp(a, b) = "Greater"

from_point(point, region_width) ==
    LET mins == [k \in Axes |-> (point[k] \div region_width) * region_width]
    IN  Box(mins, [k \in Axes |-> mins[k] + region_width])

from_aabb(aabb, region_width) == from_point(aabb.maxs, region_width)

grid_extents(b) == [k \in Axes |-> b.maxs[k] - b.mins[k]]

relative_neighbor(b, shift) ==
    Box([k \in Axes |-> b.mins[k] + shift[k] * grid_extents(b)[k]],
        [k \in Axes |-> b.maxs[k] + shift[k] * grid_extents(b)[k]])

\* SimulationBounds::aabb(): the same corners as an Aabb
aabb(b) == Box(b.mins, b.maxs)

center(a) == [k \in Axes |-> (a.mins[k] + a.maxs[k]) \div 2]

(***************************************************************************)
(* create_scene: subdivision of the scene bounds among the children.       *)
(***************************************************************************)
\* index (1-based) of the split axis: the widest of x and z, x on a tie
split_axis(a) ==
    IF (a.maxs[3] - a.mins[3]) > (a.maxs[1] - a.mins[1]) THEN 3 ELSE 1

\* a variant of split_aabb whose right half keeps the mins of the whole
split_overlapping(a) ==
    LET ax == split_axis(a)
        c  == center(a)
    IN  << Box(a.mins, [a.maxs EXCEPT ![ax] = c[ax]]),
           Box(a.mins, a.maxs) >>

split_aabb(a) ==
    LET ax == split_axis(a)
        c  == center(a)
    IN  << Box(a.mins, [a.maxs EXCEPT ![ax] = c[ax]]),
           Box([a.mins EXCEPT ![ax] = c[ax]], a.maxs) >>

RECURSIVE subdivide_from(_, _)
subdivide_from(subdivisions, remaining) ==
    IF remaining <= 0 THEN subdivisions
    ELSE LET subs == split_aabb(Head(subdivisions))
         IN  subdivide_from(Tail(subdivisions) \o subs, remaining - 1)

subdivide_domain(domain, num_subdivs) ==
    subdivide_from(<<domain>>, num_subdivs - 1)

(***************************************************************************)
(* Messages (RunnerMessage) and body descriptors (BodyAssignment).         *)
(* `origin` and the step id of an Ack are history fields: no handler reads *)
(* them.  A body descriptor keeps what the coordination code reads: its    *)
(* uuid, warm.timestamp and cold.body_type.                                *)
(***************************************************************************)
NoRegion == Box(<<0, 0, 0>>, <<0, 0, 0>>)

Msg(t, k, r, bs, o) ==
    [type |-> t, step_id |-> k, region |-> r, bodies |-> bs, origin |-> o]

StepMsg(k)              == Msg("Step", k, NoRegion, <<>>, "part")
AckMsg(k)               == Msg("Ack", k, NoRegion, <<>>, "sim")
AssignIsland(r, bs, o)  == Msg("AssignIsland", 0, r, bs, o)
AssignStaticBodies(bs)  == Msg("AssignStaticBodies", 0, NoRegion, bs, "client")
SyncClientObjects       == Msg("SyncClientObjects", 0, NoRegion, <<>>, "client")
Exit                    == Msg("Exit", 0, NoRegion, <<>>, "part")

BodyAssignment(u, ts, bt) == [uuid |-> u, timestamp |-> ts, body_type |-> bt]

(***************************************************************************)
(* State.                                                                  *)
(***************************************************************************)
VARIABLES
    m,      \* the Master partitionner: SharedState and LiveRunners
    ch,     \* the child partitionners, by child id
    wk,     \* the Region Workers, by uuid (the id of the child that spawned it)
    sims,   \* the Region Simulators of each Worker, by region
    tick,   \* history: what the latest Simulator tick read, chose and sent
    inserted \* the client: the uuids it has given to the bodies it inserted

vars == <<m, ch, wk, sims, tick, inserted>>

EmptyMap == [x \in {} |-> 0]

NoTick == [valid |-> FALSE]

InitMaster ==
    [ children        |-> <<>>,
      running         |-> FALSE,
      has_scene       |-> FALSE,
      pending_acks    |-> 0,
      step_id         |-> 0,
      step_limit      |-> 0,
      children_bounds |-> <<>>,
      has_per_node    |-> FALSE,
      per_node        |-> <<>>,
      assigned        |-> EmptyMap,
      static_bodies   |-> <<>>,
      exited          |-> FALSE,
      issued          |-> -1,
      toggles         |-> 0,
      removals        |-> 0,
      strays          |-> 0,
      response        |-> "none",
      other           |-> [ has_scene    |-> FALSE,
                            pending_acks |-> 0,
                            step_id      |-> 0,
                            step_limit   |-> 0,
                            issued       |-> -1,
                            in_flight    |-> 0 ] ]

InitChild ==
    [ has_scene    |-> FALSE,
      pending_acks |-> 0,
      step_id      |-> 0,
      has_runner   |-> FALSE,
      exited       |-> FALSE ]

InitWorker ==
    [ up            |-> FALSE,
      crashed       |-> FALSE,
      exit          |-> FALSE,
      zq_master     |-> <<>>,
      zq_child      |-> <<>>,
      zq_sims       |-> EmptyMap,
      mq            |-> <<>>,
      pending_acks  |-> 0,
      step_id       |-> 0,
      static_bodies |-> <<>>,
      watch_sets    |-> EmptyMap,
      client_object_sets |-> EmptyMap,
      reply         |-> <<>> ]

Init ==
    /\ m = InitMaster
    /\ ch = [c \in Children |-> InitChild]
    /\ wk = [w \in Children |-> InitWorker]
    /\ sims = [w \in Children |-> EmptyMap]
    /\ tick = NoTick
    /\ inserted = {}

(***************************************************************************)
(* Finite maps and queues.                                                 *)
(***************************************************************************)
MapPut(f, k, v) == [x \in DOMAIN f \cup {k} |-> IF x = k THEN v ELSE f[x]]
MapDel(f, k)    == [x \in DOMAIN f \ {k} |-> f[x]]
QGet(f, k)      == IF k \in DOMAIN f THEN f[k] ELSE <<>>
QPut(f, k, q)   == IF q = <<>> THEN MapDel(f, k) ELSE MapPut(f, k, q)

RECURSIVE SeqToSet(_)
SeqToSet(s) == IF s = <<>> THEN {} ELSE {Head(s)} \cup SeqToSet(Tail(s))

(***************************************************************************)
(* Partitionner handlers.  A handler and the HTTP calls it awaits are one  *)
(* operator from the bundle st = [m, ch, wk] to the bundle after it.       *)
(***************************************************************************)
Bundle(mm, cc, ww) == [m |-> mm, ch |-> cc, wk |-> ww]

\* put_runner_message from a partitionner: `via` is the publishing process
put_runner_message(st, via, uuid, message) ==
    IF via = "master"
    THEN [st EXCEPT !.wk[uuid].zq_master = Append(@, message)]
    ELSE [st EXCEPT !.wk[uuid].zq_child = Append(@, message)]

RECURSIVE put_runner_messages(_, _, _, _)
put_runner_messages(st, via, uuid, messages) ==
    IF messages = <<>> THEN st
    ELSE put_runner_messages(put_runner_message(st, via, uuid, Head(messages)),
                             via, uuid, Tail(messages))

RECURSIVE step(_, _)
RECURSIVE child_step(_, _, _)
RECURSIVE step_children(_, _, _)
RECURSIVE ack(_)

\* step on a child partitionner (PartitionnerType::Runner)
child_step(st, c, k) ==
    IF ~st.ch[c].has_scene THEN st
    ELSE LET runners_to_notify == IF st.ch[c].has_runner THEN <<c>> ELSE <<>>
             st1 == [st EXCEPT !.ch[c].pending_acks = Len(runners_to_notify),
                               !.ch[c].step_id = k]
         IN  IF runners_to_notify = <<>>
             THEN ack(st1)
             ELSE put_runner_message(st1, "child", c, StepMsg(k))

step_children(st, children_to_notify, k) ==
    IF children_to_notify = <<>> THEN st
    ELSE step_children(child_step(st, Head(children_to_notify), k),
                       Tail(children_to_notify), k)

\* step on the Master
step(st, k) ==
    IF ~st.m.running THEN st
    ELSE IF ~st.m.has_scene THEN st
    ELSE step_children([st EXCEPT !.m.pending_acks = Len(st.m.children),
                                  !.m.step_id = k,
                                  !.m.issued = k],
                       st.m.children, k)

\* ack on the Master
ack(st) ==
    IF ~st.m.has_scene THEN st
    ELSE LET val_before == st.m.pending_acks
             st1 == [st EXCEPT !.m.pending_acks = val_before - 1]
         IN  IF val_before <= 1
             THEN LET new_step_id == st.m.step_id + 1
                      st2 == [st1 EXCEPT !.m.step_id = new_step_id]
                  IN  IF new_step_id <= st.m.step_limit
                      THEN step(st2, new_step_id)
                      ELSE [st2 EXCEPT !.m.running = FALSE]
             ELSE st1

\* ack on a child partitionner
child_ack(st, c) ==
    IF ~st.ch[c].has_scene THEN st
    ELSE LET val_before == st.ch[c].pending_acks
             st1 == [st EXCEPT !.ch[c].pending_acks = val_before - 1]
         IN  IF val_before <= 1 THEN ack(st1) ELSE st1

start_stop(st, running) ==
    LET was_running == st.m.running
        st1 == [st EXCEPT !.m.running = running]
    IN  IF running /\ ~was_running
        THEN IF st.m.has_scene
             THEN IF st.m.step_id < st.m.step_limit
                  THEN step(st1, st.m.step_id)
                  ELSE [st1 EXCEPT !.m.running = FALSE]
             ELSE step(st1, 1)
        ELSE st1

\* a variant of handle_client_inputs that stores the limit of the input
limit_overwritten(st, step_id) ==
    IF ~st.m.has_scene THEN st
    ELSE start_stop([st EXCEPT !.m.step_limit = step_id \div NUM_INTERNAL_STEPS + 2],
                    TRUE)

\* one iteration of input_handling_loop for a client input at `step_id`
handle_client_inputs(st, step_id) ==
    IF ~st.m.has_scene THEN st
    ELSE LET new_step_limit == step_id \div NUM_INTERNAL_STEPS + 2
             old == st.m.step_limit
         IN  start_stop([st EXCEPT !.m.step_limit =
                            IF new_step_limit > old THEN new_step_limit ELSE old],
                        TRUE)

\* The handlers of the Master for a second scene: create_scene,
\* input_handling_loop and ack, with the start_stop and the step they call,
\* on the entry of that scene in scenes_acks (m.other) and on what the
\* scenes share, the flag `running` and the children.  The children and the
\* Workers of that scene are taken as the acks they owe: in_flight counts
\* them, one for each child a Step was sent to; issued is the last id sent
other_scene(st, request, step_id) ==
    LET step_other(s, k) ==
           IF ~s.m.running THEN s
           ELSE IF ~s.m.other.has_scene THEN s
           ELSE [s EXCEPT !.m.other.pending_acks = Len(s.m.children),
                          !.m.other.step_id = k,
                          !.m.other.issued = k,
                          !.m.other.in_flight = @ + Len(s.m.children)]
        start_stop_other(s, running) ==
           LET was_running == s.m.running
               s1 == [s EXCEPT !.m.running = running]
           IN  IF running /\ ~was_running
               THEN IF s.m.other.has_scene
                    THEN IF s.m.other.step_id < s.m.other.step_limit
                         THEN step_other(s1, s.m.other.step_id)
                         ELSE [s1 EXCEPT !.m.running = FALSE]
                    ELSE step_other(s1, 1)
               ELSE s1
    IN  CASE request = "create_scene" ->
                [st EXCEPT !.m.other = [has_scene |-> TRUE, pending_acks |-> 0,
                                        step_id |-> 0, step_limit |-> 0,
                                        issued |-> @.issued, in_flight |-> @.in_flight]]
          [] request = "client_input" ->
                IF ~st.m.other.has_scene THEN st
                ELSE LET new_step_limit == step_id \div NUM_INTERNAL_STEPS + 2
                         old == st.m.other.step_limit
                     IN  start_stop_other(
                            [st EXCEPT !.m.other.step_limit =
                                IF new_step_limit > old THEN new_step_limit ELSE old],
                            TRUE)
          [] request = "ack" ->
                IF ~st.m.other.has_scene THEN st
                ELSE LET val_before == st.m.other.pending_acks
                         st1 == [st EXCEPT !.m.other.pending_acks = val_before - 1,
                                           !.m.other.in_flight = @ - 1]
                     IN  IF val_before <= 1
                         THEN LET new_step_id == st.m.other.step_id + 1
                                  st2 == [st1 EXCEPT !.m.other.step_id = new_step_id]
                              IN  IF new_step_id <= st.m.other.step_limit
                                  THEN step_other(st2, new_step_id)
                                  ELSE [st2 EXCEPT !.m.running = FALSE]
                         ELSE st1

(***************************************************************************)
(* Region allocation on the Master.                                        *)
(***************************************************************************)
\* Cuboid::distance_to_point (solid), squared: same order as the distance
distance_to_point(a, p) ==
    LET d(k) == IF p[k] < a.mins[k] THEN a.mins[k] - p[k]
                ELSE IF p[k] > a.maxs[k] THEN p[k] - a.maxs[k] ELSE 0
    IN  d(1) * d(1) + d(2) * d(2) + d(3) * d(3)

\* the 1-based index of the child whose bounds get `region`
child_of_region(children_bounds, region) ==
    LET new_region_center == center(aabb(region))
        ids == 1..Len(children_bounds)
        inside == {i \in ids : contains_local_point(children_bounds[i], new_region_center)}
        dist(i) == distance_to_point(children_bounds[i], new_region_center)
    IN  IF inside # {}
        THEN CHOOSE i \in inside : \A j \in inside : i <= j
        ELSE CHOOSE i \in ids :
                /\ \A j \in ids : dist(i) <= dist(j)
                /\ \A j \in ids : dist(j) = dist(i) => i <= j

\* a variant of assign_runner that returns the Worker of the region without
\* recording the assignment
assign_unrecorded(st, region) ==
    IF st.m.exited THEN [st |-> st, uuid |-> 0, status |-> "BAD_REQUEST"]
    ELSE IF region \in DOMAIN st.m.assigned
    THEN [st |-> st, uuid |-> st.m.assigned[region], status |-> "OK"]
    ELSE IF ~st.m.has_scene THEN [st |-> st, uuid |-> 0, status |-> "panic"]
    ELSE LET child_id == child_of_region(st.m.children_bounds, region)
         IN  IF ~st.m.has_per_node \/ child_id > Len(st.m.per_node)
             THEN [st |-> st, uuid |-> 0, status |-> "panic"]
             ELSE [st |-> st, uuid |-> st.m.per_node[child_id], status |-> "OK"]

\* assign_runner: the bundle after the call, the uuid returned and the
\* status of the call; uuid 0 stands for a failed call: the error status
\* BAD_REQUEST, or a panic of the handler (the unwrap of the geometry of an
\* unknown scene, the index into the runners of the scene)
assign_runner(st, region) ==
    IF st.m.exited THEN [st |-> st, uuid |-> 0, status |-> "BAD_REQUEST"]
    ELSE IF region \in DOMAIN st.m.assigned
    THEN [st |-> st, uuid |-> st.m.assigned[region], status |-> "OK"]
    ELSE IF ~st.m.has_scene THEN [st |-> st, uuid |-> 0, status |-> "panic"]
    ELSE LET child_id == child_of_region(st.m.children_bounds, region)
         IN  IF ~st.m.has_per_node \/ child_id > Len(st.m.per_node)
             THEN [st |-> st, uuid |-> 0, status |-> "panic"]
             ELSE LET uuid == st.m.per_node[child_id]
                  IN  [st |-> [st EXCEPT !.m.assigned = MapPut(@, region, uuid)],
                       uuid |-> uuid, status |-> "OK"]

\* create_scene on a child: spawns the Region Worker of the scene
child_create_scene(st, c) ==
    [st EXCEPT !.ch[c] = [InitChild EXCEPT !.has_scene = TRUE, !.has_runner = TRUE,
                                           !.exited = st.ch[c].exited],
               !.wk[c].up = TRUE]

RECURSIVE create_scene_children(_, _, _)
create_scene_children(st, children_to_notify, n) ==
    IF children_to_notify = <<>> \/ n = 0 THEN st
    ELSE create_scene_children(child_create_scene(st, Head(children_to_notify)),
                               Tail(children_to_notify), n - 1)

\* create_scene on the Master
create_scene(st, bounds) ==
    LET children_bounds == subdivide_domain(bounds, Len(st.m.children))
        n   == IF Len(children_bounds) < Len(st.m.children)
               THEN Len(children_bounds) ELSE Len(st.m.children)
        st1 == [st EXCEPT !.m.children_bounds = children_bounds,
                          !.m.static_bodies = <<>>,
                          !.m.has_scene = TRUE,
                          !.m.pending_acks = 0,
                          !.m.step_id = 0,
                          !.m.step_limit = 0,
                          !.m.response = "OK"]
        st2 == create_scene_children(st1, st.m.children, n)
    IN  [st2 EXCEPT !.m.has_per_node = TRUE,
                    !.m.per_node = SubSeq(st.m.children, 1, n)]

\* insert_objects, second loop: one region of region_to_objects after the
\* other, in the order `regions`; stops at the first failed assign_runner,
\* whose status is the outcome of the request
RECURSIVE send_objects(_, _, _)
send_objects(st, regions, region_to_objects) ==
    IF regions = <<>> THEN st
    ELSE LET region == Head(regions)
             res == assign_runner(st, region)
         IN  IF res.uuid = 0 THEN [res.st EXCEPT !.m.response = res.status]
             ELSE send_objects(
                    put_runner_messages(res.st, "master", res.uuid,
                        << AssignIsland(region, region_to_objects[region], "client"),
                           AssignStaticBodies(res.st.m.static_bodies),
                           SyncClientObjects >>),
                    Tail(regions), region_to_objects)

\* a variant of insert_objects that does not look at the removed scenes
insert_unchecked(st, bodies, regions) ==
    IF FALSE THEN st
    ELSE LET descr(b) == BodyAssignment(b.uuid, b.timestamp, b.body_type)
             is_static(b) == b.body_type # "Dynamic"
             in_region(region) ==
                 LET keep(b) == ~is_static(b)
                                 /\ from_aabb(b.aabb, DEFAULT_WIDTH) = region
                     sel == SelectSeq(bodies, keep)
                 IN  [i \in 1..Len(sel) |-> descr(sel[i])]
             statics == LET sel == SelectSeq(bodies, is_static)
                        IN  [i \in 1..Len(sel) |-> descr(sel[i])]
             region_to_objects == [region \in SeqToSet(regions) |-> in_region(region)]
         IN  send_objects([st EXCEPT !.m.static_bodies = @ \o statics,
                                     !.m.response = "OK"],
                          regions, region_to_objects)

\* insert_objects on the Master.  `bodies` are the request's bodies with the
\* AABB of their shape at their position; `regions` is the iteration order
\* of region_to_objects.  m.response records the outcome of the request
insert_objects(st, bodies, regions) ==
    IF st.m.exited THEN [st EXCEPT !.m.response = "BAD_REQUEST"]
    ELSE LET descr(b) == BodyAssignment(b.uuid, b.timestamp, b.body_type)
             is_static(b) == b.body_type # "Dynamic"
             in_region(region) ==
                 LET keep(b) == ~is_static(b)
                                 /\ from_aabb(b.aabb, DEFAULT_WIDTH) = region
                     sel == SelectSeq(bodies, keep)
                 IN  [i \in 1..Len(sel) |-> descr(sel[i])]
             statics == LET sel == SelectSeq(bodies, is_static)
                        IN  [i \in 1..Len(sel) |-> descr(sel[i])]
             region_to_objects == [region \in SeqToSet(regions) |-> in_region(region)]
         IN  send_objects([st EXCEPT !.m.static_bodies = @ \o statics,
                                     !.m.response = "OK"],
                          regions, region_to_objects)

\* list_regions: the regions of the scene that have a Worker
list_regions(st) == DOMAIN st.m.assigned

\* remove_scene on a child: Exit to the Worker it spawned for the scene
child_remove_scene(st, c) ==
    LET st1 == [st EXCEPT !.ch[c].exited = TRUE, !.ch[c].has_runner = FALSE]
    IN  IF st.ch[c].has_runner THEN put_runner_message(st1, "child", c, Exit)
        ELSE st1

RECURSIVE remove_scene_children(_, _)
remove_scene_children(st, children_to_notify) ==
    IF children_to_notify = <<>> THEN st
    ELSE remove_scene_children(child_remove_scene(st, Head(children_to_notify)),
                               Tail(children_to_notify))

\* Exit to every runner of node_runners
RECURSIVE exit_runners(_, _)
exit_runners(st, node_runners) ==
    IF node_runners = <<>> THEN st
    ELSE exit_runners(put_runner_message(st, "master", Head(node_runners), Exit),
                      Tail(node_runners))

\* a variant of remove_scene that keeps the runners of the scene
remove_keeping_runners(st) ==
    LET node_runners == IF st.m.has_per_node THEN st.m.per_node ELSE <<>>
        st1 == [st EXCEPT !.m.exited = TRUE,
                          !.m.assigned = EmptyMap,
                          !.m.response = "OK"]
    IN  remove_scene_children(exit_runners(st1, node_runners), st.m.children)

\* remove_scene on the Master
remove_scene(st) ==
    LET node_runners == IF st.m.has_per_node THEN st.m.per_node ELSE <<>>
        st1 == [st EXCEPT !.m.exited = TRUE,
                          !.m.has_per_node = FALSE,
                          !.m.per_node = <<>>,
                          !.m.assigned = EmptyMap,
                          !.m.response = "OK"]
    IN  remove_scene_children(exit_runners(st1, node_runners), st.m.children)

\* the keys of region_to_objects for a request
request_regions(bodies) ==
    {from_aabb(bodies[i].aabb, DEFAULT_WIDTH) :
        i \in {j \in 1..Len(bodies) : bodies[j].body_type = "Dynamic"}}

\* the sequences that enumerate the set S once each
Orders(S) ==
    {q \in [1..Cardinality(S) -> S] : \A x \in S : \E i \in DOMAIN q : q[i] = x}

(***************************************************************************)
(* Region Simulator: the pure parts of one iteration of run_simulation.    *)
(* A Simulator's bodies are a map from uuid to [body_type, user_data, age, *)
(* sleeping, sleep_step_id]: age (history) counts the ticks the body has   *)
(* spent in this set, sleeping is RigidBody::is_sleeping and sleep_step_id *)
(* the BodyAttributes of the body, an Option: <<>> for None and <<x>> for  *)
(* Some(x).                                                                *)
(***************************************************************************)
NewBody(bt) ==
    [body_type |-> bt, user_data |-> 0, age |-> 0,
     sleeping |-> FALSE, sleep_step_id |-> <<>>]

\* NeighborRunner
Local       == [local |-> TRUE, uuid |-> 0]
Remote(u)   == [local |-> FALSE, uuid |-> u]

InitSim ==
    [ pc                  |-> "init",
      chan                |-> <<>>,
      step_id             |-> 0,
      bodies              |-> EmptyMap,
      pending_assignments |-> <<>>,
      static_bodies_added |-> 0,
      neighbors           |-> EmptyMap,
      watched_neighbors   |-> <<>> ]

\* Neighbors::spawn_neighbors for the regions of the sequence `regions`, by
\* the Simulator (w, r): the bundle and the neighbor cache after it; ok is
\* FALSE when allocate_runner failed (the Simulator thread panics)
\* a variant of spawn_neighbors that takes every new region for a local one
\* without asking the Master
spawn_locally(st, w, regions_here, runners, regions) ==
    [st |-> st,
     runners |-> [region \in DOMAIN runners \cup SeqToSet(regions) |->
                     IF region \in DOMAIN runners THEN runners[region] ELSE Local],
     ok |-> TRUE]

RECURSIVE spawn_neighbors(_, _, _, _, _)
spawn_neighbors(st, w, regions_here, runners, regions) ==
    IF regions = <<>> THEN [st |-> st, runners |-> runners, ok |-> TRUE]
    ELSE LET region == Head(regions)
         IN  IF region \in DOMAIN runners
             THEN spawn_neighbors(st, w, regions_here, runners, Tail(regions))
             ELSE IF region \in regions_here
             THEN spawn_neighbors(st, w, regions_here,
                                  MapPut(runners, region, Local), Tail(regions))
             ELSE LET res == assign_runner(st, region)
                  IN  IF res.uuid = 0
                      THEN [st |-> res.st, runners |-> runners, ok |-> FALSE]
                      ELSE spawn_neighbors(res.st, w, regions_here,
                               MapPut(runners, region,
                                      IF res.uuid = w THEN Local ELSE Remote(res.uuid)),
                               Tail(regions))

\* a variant of watched_regions that looks behind, along the negative axes
watched_behind(bounds) ==
    [i \in 1..3 |-> relative_neighbor(bounds, [k \in 1..3 |-> IF k = i THEN -1 ELSE 0])]

\* the regions init_watched_neighbors watches from `bounds`
watched_regions(bounds) ==
    [i \in 1..3 |-> relative_neighbor(bounds, [k \in 1..3 |-> IF k = i THEN 1 ELSE 0])]

\* WatchedNeighbors from the neighbor cache
init_watched_neighbors(runners, bounds) ==
    [i \in 1..3 |->
        LET b == watched_regions(bounds)[i]
        IN  [local |-> runners[b].local, uuid |-> runners[b].uuid, bounds |-> b]]

\* read_watched_objects: the (region, aabb) pairs of the watch sets read.
\* A Local neighbor is read from this Worker's watch_sets and skipped when
\* absent; a Remote one is answered by the queryable of the Worker `uuid`,
\* with the empty set when that Worker has no entry
read_watched_objects(workers, w, watched_neighbors) ==
    UNION { LET nbh == watched_neighbors[i]
                host == IF nbh.local THEN w ELSE nbh.uuid
                sets == workers[host].watch_sets
            IN  IF nbh.bounds \in DOMAIN sets
                THEN {[region |-> nbh.bounds, aabb |-> o.aabb] : o \in sets[nbh.bounds]}
                ELSE {}
          : i \in DOMAIN watched_neighbors }

\* a variant of resolve_bodies that inserts every assignment at once
RECURSIVE resolve_at_once(_, _, _)
resolve_at_once(bodies, pending_assignments, step_id) ==
    IF pending_assignments = <<>> THEN bodies
    ELSE LET data == Head(pending_assignments)
         IN  resolve_at_once(
                MapPut(bodies, data.uuid, NewBody(data.body_type)),
                Tail(pending_assignments), step_id)

\* resolve_pending_assignments: bodies after it
RECURSIVE resolve_bodies(_, _, _)
resolve_bodies(bodies, pending_assignments, step_id) ==
    IF pending_assignments = <<>> THEN bodies
    ELSE LET data == Head(pending_assignments)
         IN  resolve_bodies(
                IF data.timestamp > step_id THEN bodies
                ELSE MapPut(bodies, data.uuid, NewBody(data.body_type)),
                Tail(pending_assignments), step_id)

\* resolve_pending_assignments: the assignments retained
resolve_retained(pending_assignments, step_id) ==
    LET future(data) == data.timestamp > step_id
    IN  SelectSeq(pending_assignments, future)

\* a variant of resolve_pending_assignments that leaves in the body set the
\* body that uuid2body gives for the uuid of the assignment
RECURSIVE resolve_without_removal(_, _)
resolve_without_removal(sim_state, pending_assignments) ==
    IF pending_assignments = <<>> THEN sim_state
    ELSE LET data == Head(pending_assignments)
             body_handle == sim_state.handles + 1
         IN  resolve_without_removal(
                IF data.timestamp > sim_state.step_id THEN sim_state
                ELSE [sim_state EXCEPT
                        !.bodies = MapPut(@, body_handle,
                                      [uuid |-> data.uuid,
                                       body |-> NewBody(data.body_type)]),
                        !.uuid2body = MapPut(@, data.uuid, body_handle),
                        !.handles = body_handle],
                Tail(pending_assignments))

\* resolve_pending_assignments on the body set itself.  sim_state.bodies
\* maps the handles to the bodies, each with the uuid that body2uuid gives
\* for it, uuid2body maps the uuids to the handles, and handles counts the
\* handles the body set has given out: every insertion gets a new one.
RECURSIVE resolve_pending_assignments(_, _)
resolve_pending_assignments(sim_state, pending_assignments) ==
    IF pending_assignments = <<>> THEN sim_state
    ELSE LET data == Head(pending_assignments)
             removed == IF data.uuid \in DOMAIN sim_state.uuid2body
                        THEN MapDel(sim_state.bodies,
                                    sim_state.uuid2body[data.uuid])
                        ELSE sim_state.bodies
             body_handle == sim_state.handles + 1
         IN  resolve_pending_assignments(
                IF data.timestamp > sim_state.step_id THEN sim_state
                ELSE [sim_state EXCEPT
                        !.bodies = MapPut(removed, body_handle,
                                      [uuid |-> data.uuid,
                                       body |-> NewBody(data.body_type)]),
                        !.uuid2body = MapPut(@, data.uuid, body_handle),
                        !.handles = body_handle],
                Tail(pending_assignments))

dynamic_bodies(bodies) == {u \in DOMAIN bodies : bodies[u].body_type = "Dynamic"}

\* the ascending enumeration of a set of uuids
Sorted(S) == CHOOSE q \in Orders(S) : \A i, j \in DOMAIN q : i < j => q[i] < q[j]

RECURSIVE traverse(_, _, _)
traverse(visited, contacts, dyn) ==
    LET next == visited \cup {v \in dyn : \E u \in visited : {u, v} \in contacts}
    IN  IF next = visited THEN visited ELSE traverse(next, contacts, dyn)

\* calculate_connected_components: the body sets of the components.  The
\* traversal starts from every body, skips the non-dynamic ones and follows
\* the contacts of the narrow phase
calculate_connected_components(bodies, contacts) ==
    LET dyn == dynamic_bodies(bodies)
    IN  {traverse({u}, contacts, dyn) : u \in dyn}

\* calculate_connected_components as the loop computes it: `order` is the
\* order in which sim_state.bodies.iter() gives the bodies, the stack is
\* popped from its end, swept_aabb is the variable declared before the outer
\* loop.  Each component is its list of bodies and the swept_aabb copied
\* into it.  The order in which the bodies in contact are pushed only
\* changes the order of the list
ConnectedComponents(bodies, pose, contacts, order) ==
    LET new_invalid == Box([k \in Axes |-> 2^30], [k \in Axes |-> -(2^30)])
        merge(a, b) ==
           Box([k \in Axes |-> IF b.mins[k] < a.mins[k] THEN b.mins[k] ELSE a.mins[k]],
               [k \in Axes |-> IF b.maxs[k] > a.maxs[k] THEN b.maxs[k] ELSE a.maxs[k]])
        RECURSIVE pop(_, _, _, _)
        pop(stack, visited, connected_bodies, swept_aabb) ==
           IF stack = <<>>
           THEN [visited |-> visited, bodies |-> connected_bodies,
                 swept_aabb |-> swept_aabb]
           ELSE LET body_handle == stack[Len(stack)]
                    rest == SubSeq(stack, 1, Len(stack) - 1)
                IN  IF body_handle \in visited THEN
                       pop(rest, visited, connected_bodies, swept_aabb)
                    ELSE IF bodies[body_handle].body_type # "Dynamic" THEN
                       pop(rest, visited, connected_bodies, swept_aabb)
                    ELSE pop(rest \o Sorted({v \in DOMAIN bodies :
                                                {body_handle, v} \in contacts}),
                             visited \cup {body_handle},
                             Append(connected_bodies, body_handle),
                             merge(swept_aabb, pose[body_handle].swept))
        RECURSIVE iter(_, _, _, _)
        iter(handles, visited, swept_aabb, result) ==
           IF handles = <<>> THEN result
           ELSE LET cc == pop(<<Head(handles)>>, visited, <<>>, swept_aabb)
                IN  iter(Tail(handles), cc.visited, cc.swept_aabb,
                         IF cc.bodies # <<>>
                         THEN Append(result, [bodies |-> cc.bodies,
                                              swept_aabb |-> cc.swept_aabb])
                         ELSE result)
    IN  iter(order, {}, new_invalid, <<>>)

\* TLC integers are 32 bits wide: stands for i64::MIN, below every coordinate
I64_MIN == -(2^30)

smallest == Box([k \in Axes |-> I64_MIN], [k \in Axes |-> I64_MIN])

\* Iterator::max over regions (Ord::cmp is partial_cmp)
max_region(S) == CHOOSE x \in S : \A y \in S : ~Gt(y, x)

\* a variant of candidate_region without the sendback delay
candidate_at_once(user_data, body_aabb, watched, sim_bounds) ==
    LET watch_intersections == {o \in watched : Intersects(o.aabb, body_aabb)}
    IN  IF watch_intersections = {}
        THEN [region |-> from_aabb(body_aabb, DEFAULT_WIDTH), user_data |-> user_data]
        ELSE [region |-> max_region({o.region : o \in watch_intersections}),
              user_data |-> user_data]

\* a variant of candidate_region that counts twice as fast
candidate_in_haste(user_data, body_aabb, watched, sim_bounds) ==
    LET watch_intersections == {o \in watched : Intersects(o.aabb, body_aabb)}
    IN  IF watch_intersections = {}
        THEN LET body_region == from_aabb(body_aabb, DEFAULT_WIDTH)
             IN  IF Lt(body_region, sim_bounds) /\ user_data < MIN_SENDBACK_DELAY
                 THEN [region |-> sim_bounds, user_data |-> user_data + 2]
                 ELSE [region |-> body_region, user_data |-> user_data]
        ELSE [region |-> max_region({o.region : o \in watch_intersections}),
              user_data |-> user_data]

\* the closure of calculate_region_assignments that gives one body its
\* candidate region, and the body's user_data after it
candidate_region(user_data, body_aabb, watched, sim_bounds) ==
    LET watch_intersections == {o \in watched : Intersects(o.aabb, body_aabb)}
    IN  IF watch_intersections = {}
        THEN LET body_region == from_aabb(body_aabb, DEFAULT_WIDTH)
             IN  IF Lt(body_region, sim_bounds) /\ user_data < MIN_SENDBACK_DELAY
                 THEN [region |-> sim_bounds, user_data |-> user_data + 1]
                 ELSE [region |-> body_region, user_data |-> user_data]
        ELSE [region |-> max_region({o.region : o \in watch_intersections}),
              user_data |-> user_data]

\* a variant of best_region that elects the candidate of the first body
first_region(best, handles, cand) == cand[Head(handles)].region

\* the inner loop of calculate_region_assignments over one component
RECURSIVE best_region(_, _, _)
best_region(best, handles, cand) ==
    IF handles = <<>> THEN best
    ELSE best_region(IF Gt(cand[Head(handles)].region, best)
                     THEN cand[Head(handles)].region ELSE best,
                     Tail(handles), cand)

\* calculate_region_assignments, for the poses `pose` the physics step left
calculate_region_assignments(bodies, connected_components, pose, watched, sim_bounds) ==
    LET dyn  == dynamic_bodies(bodies)
        cand == [u \in dyn |->
                    candidate_region(bodies[u].user_data, pose[u].aabb, watched, sim_bounds)]
        cc_regions == [cc \in connected_components |->
                          best_region(smallest, Sorted(cc), cand)]
        moved == {cc \in connected_components :
                     Gt(cc_regions[cc], sim_bounds) \/ Lt(cc_regions[cc], sim_bounds)}
        targets == {cc_regions[cc] : cc \in moved}
    IN  [ bodies |-> [u \in DOMAIN bodies |->
                        IF u \in dyn
                        THEN [bodies[u] EXCEPT !.user_data = cand[u].user_data]
                        ELSE bodies[u]],
          cand |-> [u \in dyn |-> cand[u].region],
          cc_regions |-> cc_regions,
          bodies_to_reassign |->
              [region \in targets |-> UNION {cc \in moved : cc_regions[cc] = region}],
          reassigned_bodies |-> UNION moved ]

\* a variant of compute_watch_data that also publishes the interior bodies
watch_interior(bodies, pose, reassigned_bodies, sim_bounds) ==
    {[uuid |-> u, aabb |-> pose[u].swept] :
        u \in dynamic_bodies(bodies) \ reassigned_bodies}

\* a variant of compute_watch_data that also publishes the migrated bodies
watch_migrating(bodies, pose, reassigned_bodies, sim_bounds) ==
    {[uuid |-> u, aabb |-> pose[u].swept] :
        u \in {v \in dynamic_bodies(bodies) :
                  ~Contains(aabb(sim_bounds), pose[v].swept)}}

\* compute_watch_data: the (uuid, swept AABB) pairs published
compute_watch_data(bodies, pose, reassigned_bodies, sim_bounds) ==
    LET my_region_aabb == aabb(sim_bounds)
    IN  {[uuid |-> u, aabb |-> pose[u].swept] :
            u \in {v \in dynamic_bodies(bodies) \ reassigned_bodies :
                      ~Contains(my_region_aabb, pose[v].swept)}}

\* a variant of compute_client_objects that leaves out the pending
\* assignments
objects_of_world(bodies, pending, step_id) ==
    LET timestamp == step_id * NUM_INTERNAL_STEPS
        attrs(body) == IF body.sleeping
                       THEN IF body.sleep_step_id = <<>> THEN <<timestamp>>
                            ELSE body.sleep_step_id
                       ELSE <<>>
        marked == [u \in DOMAIN bodies |->
                     [bodies[u] EXCEPT !.sleep_step_id = attrs(bodies[u])]]
    IN  [ bodies |-> marked,
          set |-> [ timestamp |-> timestamp,
                    objects |->
                       {[uuid |-> u, sleep_start_frame |-> marked[u].sleep_step_id] :
                           u \in DOMAIN marked} ] ]

\* a variant of compute_client_objects that marks a sleeping body with the
\* step of every snapshot
objects_marked_anew(bodies, pending, step_id) ==
    LET timestamp == step_id * NUM_INTERNAL_STEPS
        attrs(body) == IF body.sleeping
                       THEN <<timestamp>>
                       ELSE <<>>
        marked == [u \in DOMAIN bodies |->
                     [bodies[u] EXCEPT !.sleep_step_id = attrs(bodies[u])]]
    IN  [ bodies |-> marked,
          set |-> [ timestamp |-> timestamp,
                    objects |->
                       {[uuid |-> u, sleep_start_frame |-> marked[u].sleep_step_id] :
                           u \in DOMAIN marked}
                       \cup {[uuid |-> pending[i].uuid, sleep_start_frame |-> <<>>] :
                                i \in DOMAIN pending} ] ]

\* compute_client_objects: the bodies with their sleep_step_id brought up to
\* date, and the ClientBodyObjectSet: a timestamp and the objects, each the
\* uuid and the sleep_start_frame of a body of the world or of a pending
\* assignment
compute_client_objects(bodies, pending, step_id) ==
    LET timestamp == step_id * NUM_INTERNAL_STEPS
        attrs(body) == IF body.sleeping
                       THEN IF body.sleep_step_id = <<>> THEN <<timestamp>>
                            ELSE body.sleep_step_id
                       ELSE <<>>
        marked == [u \in DOMAIN bodies |->
                     [bodies[u] EXCEPT !.sleep_step_id = attrs(bodies[u])]]
    IN  [ bodies |-> marked,
          set |-> [ timestamp |-> timestamp,
                    objects |->
                       {[uuid |-> u, sleep_start_frame |-> marked[u].sleep_step_id] :
                           u \in DOMAIN marked}
                       \cup {[uuid |-> pending[i].uuid, sleep_start_frame |-> <<>>] :
                                i \in DOMAIN pending} ] ]

\* the AssignIsland of apply_and_send_region_assignments for one region
island_message(region, handles, bodies, step_id) ==
    LET hs == Sorted(handles)
    IN  AssignIsland(region,
            [i \in DOMAIN hs |-> BodyAssignment(hs[i], step_id, bodies[hs[i]].body_type)],
            "sim")

\* a variant of neighbor_send that publishes the message to the command
\* queue of the Worker of the neighbor, be it the Simulator's own Worker
send_by_queue(workers, w, r, neighbor, message) ==
    [workers EXCEPT ![IF neighbor.local THEN w ELSE neighbor.uuid].zq_sims =
        QPut(@, r, Append(QGet(@, r), message))]

\* NeighborRunner::send from the Simulator (w, r)
neighbor_send(workers, w, r, neighbor, message) ==
    IF neighbor.local
    THEN [workers EXCEPT ![w].mq = Append(@, message)]
    ELSE [workers EXCEPT ![neighbor.uuid].zq_sims =
                QPut(@, r, Append(QGet(@, r), message))]

\* a variant of remove_reassigned that leaves the migrated bodies in place
remove_nothing(bodies, reassigned_bodies) == bodies

\* the bodies left once the reassigned ones are removed from the world
remove_reassigned(bodies, reassigned_bodies) ==
    [u \in DOMAIN bodies \ reassigned_bodies |-> bodies[u]]

RECURSIVE send_islands(_, _, _, _, _, _, _)
send_islands(workers, w, r, runners, regions, assignments, sim) ==
    IF regions = <<>> THEN workers
    ELSE LET region == Head(regions)
         IN  send_islands(
                neighbor_send(workers, w, r, runners[region],
                    island_message(region, assignments[region], sim.bodies, sim.step_id)),
                w, r, runners, Tail(regions), assignments, sim)

(***************************************************************************)
(* Actions of the client and of the partitionners.                         *)
(***************************************************************************)
Now == Bundle(m, ch, wk)

Becomes(st) == m' = st.m /\ ch' = st.ch /\ wk' = st.wk

\* the Step messages a Worker has not consumed yet
steps_in(q) == Len(SelectSeq(q, LAMBDA x : x.type = "Step"))

Outstanding(workers, simulators, w) ==
    LET waiting == {steps_in(simulators[w][r].chan) : r \in DOMAIN simulators[w]}
    IN  steps_in(workers[w].zq_child)
        + (IF waiting = {} THEN 0 ELSE CHOOSE x \in waiting : \A y \in waiting : y <= x)

\* a child partitionner registers to the Master at startup; the children
\* are numbered in the order of their registration
RegisterChild(c) ==
    /\ c = Len(m.children) + 1
    /\ m' = [m EXCEPT !.children = Append(@, c)]
    /\ UNCHANGED <<ch, wk, sims, tick, inserted>>

\* the client creates the scene (once, before anything else on it)
CreateScene(bounds) ==
    /\ ~m.has_scene
    /\ \E st \in {create_scene(Now, bounds)} : Becomes(st)
    /\ UNCHANGED <<sims, tick, inserted>>

\* the client inserts bodies with fresh uuids
InsertObjects(bodies, regions) ==
    /\ m.has_scene
    /\ \A i \in DOMAIN bodies : bodies[i].uuid \notin inserted
    /\ \E st \in {insert_objects(Now, bodies, regions)} : Becomes(st)
    /\ inserted' = inserted \cup {bodies[i].uuid : i \in DOMAIN bodies}
    /\ UNCHANGED <<sims, tick>>

\* the client reports its simulated step; limit is the largest step limit
ClientInput(step_id, limit) ==
    /\ m.has_scene
    /\ step_id \div NUM_INTERNAL_STEPS + 2 <= limit
    /\ \E st \in {handle_client_inputs(Now, step_id)} :
          /\ \A w \in Children : Outstanding(st.wk, sims, w) <= MaxQueue
          /\ Becomes(st)
    /\ UNCHANGED <<sims, tick, inserted>>

\* the client toggles the simulation, MaxToggles times at most
StartStop(running) ==
    /\ m.has_scene
    /\ m.toggles < MaxToggles
    /\ \E st \in {start_stop([Now EXCEPT !.m.toggles = @ + 1], running)} :
          /\ \A w \in Children : Outstanding(st.wk, sims, w) <= MaxQueue
          /\ Becomes(st)
    /\ UNCHANGED <<sims, tick, inserted>>

\* the client removes the scene, MaxRemovals times at most
RemoveScene ==
    /\ m.removals < MaxRemovals
    /\ \E st \in {remove_scene([Now EXCEPT !.m.removals = @ + 1])} : Becomes(st)
    /\ UNCHANGED <<sims, tick, inserted>>

\* an ack reaches the Master while it waits for none: the scene is unknown,
\* or no step of it is in flight
StrayAck ==
    /\ m.strays < MaxStrays
    /\ m.pending_acks = 0
    /\ \E st \in {ack([Now EXCEPT !.m.strays = @ + 1])} :
          /\ \A w \in Children : Outstanding(st.wk, sims, w) <= MaxQueue
          /\ Becomes(st)
    /\ UNCHANGED <<sims, tick, inserted>>

\* a step request reaches the Master for a scene it does not know
StrayStep(k) ==
    /\ m.strays < MaxStrays
    /\ ~m.has_scene
    /\ \E st \in {step([Now EXCEPT !.m.strays = @ + 1], k)} : Becomes(st)
    /\ UNCHANGED <<sims, tick, inserted>>

(***************************************************************************)
(* Region Worker: main_messages_loop.                                      *)
(***************************************************************************)
Alive(w) == wk[w].up /\ ~wk[w].crashed /\ ~wk[w].exit

RECURSIVE broadcast(_, _, _)
broadcast(simulators, regions, message) ==
    IF regions = {} THEN simulators
    ELSE LET r == CHOOSE x \in regions : TRUE
         IN  broadcast([simulators EXCEPT ![r].chan = Append(@, message)],
                       regions \ {r}, message)

\* a variant of handle_message that acks the parent as soon as it has
\* broadcast a Step
ack_at_once(st, sm, w, message) ==
    CASE message.type = "Ack" ->
            IF st.wk[w].pending_acks <= 0
            THEN [st |-> [st EXCEPT !.wk[w].crashed = TRUE], sm |-> sm]
            ELSE LET st1 == [st EXCEPT !.wk[w].pending_acks = @ - 1]
                 IN  [st |-> IF st1.wk[w].pending_acks = 0 THEN child_ack(st1, w) ELSE st1,
                      sm |-> sm]
      [] message.type = "AssignStaticBodies" ->
            [st |-> [st EXCEPT !.wk[w].static_bodies = @ \o message.bodies], sm |-> sm]
      [] message.type = "AssignIsland" ->
            LET sm1 == IF message.region \in DOMAIN sm THEN sm
                       ELSE MapPut(sm, message.region, InitSim)
            IN  [st |-> st,
                 sm |-> [sm1 EXCEPT ![message.region].chan = Append(@, message)]]
      [] message.type = "Step" ->
            LET st1 == [st EXCEPT !.wk[w].step_id = message.step_id,
                                  !.wk[w].pending_acks = Cardinality(DOMAIN sm)]
            IN  [st |-> child_ack(st1, w),
                 sm |-> broadcast(sm, DOMAIN sm, StepMsg(message.step_id))]
      [] message.type = "SyncClientObjects" ->
            [st |-> st, sm |-> broadcast(sm, DOMAIN sm, message)]
      [] message.type = "Exit" ->
            [st |-> [st EXCEPT !.wk[w].exit = TRUE],
             sm |-> broadcast(sm, DOMAIN sm, message)]

\* one iteration of the loop on `message`, already taken from its queue:
\* st is the bundle and sm the Simulators of the Worker after the receive
handle_message(st, sm, w, message) ==
    CASE message.type = "Ack" ->
            IF st.wk[w].pending_acks <= 0
            THEN [st |-> [st EXCEPT !.wk[w].crashed = TRUE], sm |-> sm]
            ELSE LET st1 == [st EXCEPT !.wk[w].pending_acks = @ - 1]
                 IN  [st |-> IF st1.wk[w].pending_acks = 0 THEN child_ack(st1, w) ELSE st1,
                      sm |-> sm]
      [] message.type = "AssignStaticBodies" ->
            [st |-> [st EXCEPT !.wk[w].static_bodies = @ \o message.bodies], sm |-> sm]
      [] message.type = "AssignIsland" ->
            LET sm1 == IF message.region \in DOMAIN sm THEN sm
                       ELSE MapPut(sm, message.region, InitSim)
            IN  [st |-> st,
                 sm |-> [sm1 EXCEPT ![message.region].chan = Append(@, message)]]
      [] message.type = "Step" ->
            LET st1 == [st EXCEPT !.wk[w].step_id = message.step_id,
                                  !.wk[w].pending_acks = Cardinality(DOMAIN sm)]
            IN  [st |-> IF DOMAIN sm = {} THEN child_ack(st1, w) ELSE st1,
                 sm |-> broadcast(sm, DOMAIN sm, StepMsg(message.step_id))]
      [] message.type = "SyncClientObjects" ->
            [st |-> st, sm |-> broadcast(sm, DOMAIN sm, message)]
      [] message.type = "Exit" ->
            [st |-> [st EXCEPT !.wk[w].exit = TRUE],
             sm |-> broadcast(sm, DOMAIN sm, message)]

\* the main-thread channel is polled first
WorkerRecvMain(w) ==
    /\ Alive(w)
    /\ wk[w].mq # <<>>
    /\ \E res \in {handle_message([Now EXCEPT !.wk[w].mq = Tail(@)], sims[w], w,
                                  Head(wk[w].mq))} :
          Becomes(res.st) /\ sims' = [sims EXCEPT ![w] = res.sm]
    /\ UNCHANGED <<tick, inserted>>

\* then the command queue: the oldest message of one of its publishers
WorkerRecvMaster(w) ==
    /\ Alive(w)
    /\ wk[w].mq = <<>>
    /\ wk[w].zq_master # <<>>
    /\ \E res \in {handle_message([Now EXCEPT !.wk[w].zq_master = Tail(@)], sims[w],
                                  w, Head(wk[w].zq_master))} :
          Becomes(res.st) /\ sims' = [sims EXCEPT ![w] = res.sm]
    /\ UNCHANGED <<tick, inserted>>

WorkerRecvChild(w) ==
    /\ Alive(w)
    /\ wk[w].mq = <<>>
    /\ wk[w].zq_child # <<>>
    /\ \E res \in {handle_message([Now EXCEPT !.wk[w].zq_child = Tail(@)], sims[w],
                                  w, Head(wk[w].zq_child))} :
          Becomes(res.st) /\ sims' = [sims EXCEPT ![w] = res.sm]
    /\ UNCHANGED <<tick, inserted>>

WorkerRecvSim(w, src) ==
    /\ Alive(w)
    /\ wk[w].mq = <<>>
    /\ src \in DOMAIN wk[w].zq_sims
    /\ \E res \in {handle_message(
                      [Now EXCEPT !.wk[w].zq_sims = QPut(@, src, Tail(@[src]))],
                      sims[w], w, Head(wk[w].zq_sims[src]))} :
          Becomes(res.st) /\ sims' = [sims EXCEPT ![w] = res.sm]
    /\ UNCHANGED <<tick, inserted>>

\* a variant of filter_object_set that also drops the bodies that fell
\* asleep at the step of the query
filter_asleep_since(step_id, object_set) ==
    [object_set EXCEPT !.objects =
        {obj \in @ : \/ obj.sleep_start_frame = <<>>
                     \/ obj.sleep_start_frame[1] > step_id}]

\* filter_object_set: the objects retained for a query at step_id
filter_object_set(step_id, object_set) ==
    [object_set EXCEPT !.objects =
        {obj \in @ : \/ obj.sleep_start_frame = <<>>
                     \/ obj.sleep_start_frame[1] >= step_id}]

\* one iteration of listen_storage_queries_for_client_objects: the query of
\* a client for the bodies of `region` at step_id, and the reply to it (the
\* last reply of the Worker is kept in wk[w].reply, an Option)
ClientBodies(w, region, step_id) ==
    /\ Alive(w)
    /\ wk' = [wk EXCEPT ![w].reply =
                 << [region |-> region, step_id |-> step_id,
                     data |-> IF region \in DOMAIN wk[w].client_object_sets
                              THEN filter_object_set(step_id,
                                       wk[w].client_object_sets[region])
                              ELSE [timestamp |-> 0, objects |-> {}]] >>]
    /\ UNCHANGED <<m, ch, sims, tick, inserted>>

(***************************************************************************)
(* Region Simulator: run_simulation.  The thread of a Simulator runs as    *)
(* long as the process of its Worker: a Worker that has handled Exit has   *)
(* left main_messages_loop and its process ends when main returns, at any  *)
(* point of what the Simulators do in the meantime.                        *)
(***************************************************************************)
\* the largest age recorded: ages saturate one past the sendback delay
MaxAge == MIN_SENDBACK_DELAY + 1

\* before the loop: init_watched_neighbors
SimInit(w, r) ==
    /\ wk[w].up /\ ~wk[w].crashed
    /\ r \in DOMAIN sims[w]
    /\ sims[w][r].pc = "init"
    /\ \E res \in {spawn_neighbors(Now, w, DOMAIN sims[w], EmptyMap, watched_regions(r))} :
           /\ Becomes(res.st)
           /\ sims' = [sims EXCEPT ![w][r] =
                  IF res.ok
                  THEN [@ EXCEPT !.pc = "recv",
                                 !.neighbors = res.runners,
                                 !.watched_neighbors =
                                     init_watched_neighbors(res.runners, r)]
                  ELSE [@ EXCEPT !.pc = "dead"]]
    /\ UNCHANGED <<tick, inserted>>

\* the message loop: one message of the Simulator's channel
SimRecv(w, r) ==
    /\ wk[w].up /\ ~wk[w].crashed
    /\ r \in DOMAIN sims[w]
    /\ sims[w][r].pc = "recv"
    /\ sims[w][r].chan # <<>>
    /\ \E sim \in {sims[w][r]} : \E message \in {Head(sim.chan)} :
       \E rest \in {[sim EXCEPT !.chan = Tail(@)]} :
           CASE message.type = "Step" ->
                  /\ sims' = [sims EXCEPT ![w][r] =
                                 [rest EXCEPT !.step_id = message.step_id, !.pc = "tick"]]
                  /\ wk' = wk
             [] message.type = "AssignIsland" ->
                  /\ sims' = [sims EXCEPT ![w][r] =
                                 [rest EXCEPT !.pending_assignments = @ \o message.bodies]]
                  /\ wk' = wk
             [] message.type = "SyncClientObjects" ->
                  \E res \in {compute_client_objects(
                                  sim.bodies, sim.pending_assignments, sim.step_id)} :
                     /\ sims' = [sims EXCEPT ![w][r] = [rest EXCEPT !.bodies = res.bodies]]
                     /\ wk' = [wk EXCEPT ![w].client_object_sets =
                                  MapPut(@, r, res.set)]
             [] message.type = "Exit" ->
                  /\ sims' = [sims EXCEPT ![w][r] = [rest EXCEPT !.pc = "killed"]]
                  /\ wk' = wk
    /\ UNCHANGED <<m, ch, tick, inserted>>

\* the rest of the iteration, from the static bodies to the Ack, for the
\* poses and the contacts the physics steps leave, with ages recorded up to
\* max_age: the bundle, the Simulator and the history record after it.
\* `delivered` tells whether NeighborRunner::send succeeds; when it does not,
\* or when allocate_runner gives no Worker, the thread of the Simulator ends
\* where apply_and_send_region_assignments is unwrapped
sim_iteration(st, sim, regions_here, w, r, pose, contacts, max_age, delivered) ==
    LET statics == st.wk[w].static_bodies
        pending == sim.pending_assignments
                     \o SubSeq(statics, sim.static_bodies_added + 1, Len(statics))
        watched == read_watched_objects(st.wk, w, sim.watched_neighbors)
        resolved == resolve_bodies(sim.bodies, pending, sim.step_id)
        dyn == dynamic_bodies(resolved)
        aged == [u \in DOMAIN resolved |->
                  [resolved[u] EXCEPT !.age = IF @ < max_age THEN @ + 1 ELSE @,
                                      !.sleeping = IF u \in dyn THEN pose[u].sleeping
                                                   ELSE @]]
        ccs == calculate_connected_components(aged, contacts)
        ra == calculate_region_assignments(aged, ccs, pose, watched, r)
        client_objects == compute_client_objects(ra.bodies, <<>>, sim.step_id)
        watch == compute_watch_data(client_objects.bodies, pose, ra.reassigned_bodies, r)
        st1 == [st EXCEPT !.wk[w].watch_sets = MapPut(@, r, watch),
                          !.wk[w].client_object_sets = MapPut(@, r, client_objects.set)]
        targets == Sorted(DOMAIN ra.bodies_to_reassign)
        res == spawn_neighbors(st1, w, regions_here, sim.neighbors, targets)
        sent == send_islands(res.st.wk, w, r, res.runners, targets,
                             ra.bodies_to_reassign,
                             [sim EXCEPT !.bodies = client_objects.bodies])
        left == remove_reassigned(client_objects.bodies, ra.reassigned_bodies)
        ok == res.ok /\ (delivered \/ targets = <<>>)
    IN  [ st  |-> IF ok
                  THEN [res.st EXCEPT !.wk = [sent EXCEPT ![w].mq =
                                                 Append(@, AckMsg(sim.step_id))]]
                  ELSE res.st,
          sim |-> [sim EXCEPT !.pc = IF ok THEN "recv" ELSE "dead",
                              !.bodies = IF ok THEN left
                                         ELSE client_objects.bodies,
                              !.pending_assignments =
                                  resolve_retained(pending, sim.step_id),
                              !.static_bodies_added = Len(statics),
                              !.neighbors = res.runners],
          tick |-> [ valid      |-> TRUE,
                     w          |-> w,
                     region     |-> r,
                     step_id    |-> sim.step_id,
                     read       |-> {[host |-> IF n.local THEN w ELSE n.uuid,
                                      region |-> n.bounds] :
                                     n \in SeqToSet(sim.watched_neighbors)},
                     watched    |-> watched,
                     owned      |-> dyn,
                     before     |-> [u \in dyn |-> aged[u]],
                     pose       |-> pose,
                     components |-> ccs,
                     cand       |-> ra.cand,
                     cc_regions |-> ra.cc_regions,
                     reassigned |-> ra.reassigned_bodies,
                     watch      |-> watch ] ]

SimTick(w, r, pose, contacts, max_age, delivered) ==
    /\ wk[w].up /\ ~wk[w].crashed
    /\ r \in DOMAIN sims[w]
    /\ sims[w][r].pc = "tick"
    /\ \E res \in {sim_iteration(Now, sims[w][r], DOMAIN sims[w], w, r,
                                 pose, contacts, max_age, delivered)} :
          /\ Becomes(res.st)
          /\ sims' = [sims EXCEPT ![w][r] = res.sim]
          /\ tick' = res.tick
    /\ UNCHANGED inserted

(***************************************************************************)
(* The environment: a scene of two cells along x, the poses the physics    *)
(* may leave a body in, the requests of the client.                        *)
(***************************************************************************)
SceneBounds == Box(<<0, 0, 0>>, <<200, 100, 100>>)

Cell0 == Box(<<0, 0, 0>>, <<100, 100, 100>>)
Cell1 == Box(<<100, 0, 0>>, <<200, 100, 100>>)

\* a pose spanning [x1, x2] along x, its swept AABB spanning [s1, s2]; the
\* physics has left the body awake
Pose(x1, x2, s1, s2) ==
    [aabb     |-> Box(<<x1, 10, 10>>, <<x2, 20, 20>>),
     swept    |-> Box(<<s1, 10, 10>>, <<s2, 20, 20>>),
     sleeping |-> FALSE]

\* well inside Cell0
Inside0   == Pose(40, 60, 40, 60)
\* in Cell0, about to cross into Cell1
Leaving0  == Pose(85, 95, 85, 105)
\* in Cell1, swept from Cell0
Entering1 == Pose(140, 160, 95, 160)
\* well inside Cell0, put to sleep by the physics
Asleep0   == [Inside0 EXCEPT !.sleeping = TRUE]

Poses == {Inside0, Leaving0, Entering1}

\* a request of the client: one dynamic body per pose of `ps`, the i-th
\* with uuid i and the timestamp 0 the client gives
Request(ps) ==
    [i \in DOMAIN ps |->
        [uuid |-> i, timestamp |-> 0, body_type |-> "Dynamic", aabb |-> ps[i].aabb]]

\* a static body lying under both cells
Floor == [aabb  |-> Box(<<0, 0, 0>>, <<200, 100, 5>>),
          swept |-> Box(<<0, 0, 0>>, <<200, 100, 5>>)]

\* Request(ps) and one static body more, the Floor
RequestOnFloor(ps) ==
    Append(Request(ps),
           [uuid |-> Len(ps) + 1, timestamp |-> 0, body_type |-> "Static",
            aabb |-> Floor.aabb])

\* the dynamic bodies the Simulator (w, r) steps at its next tick
TickBodies(w, r) ==
    LET sim == sims[w][r]
        statics == wk[w].static_bodies
    IN  dynamic_bodies(resolve_bodies(sim.bodies,
            sim.pending_assignments
                \o SubSeq(statics, sim.static_bodies_added + 1, Len(statics)),
            sim.step_id))

Pairs(S) == {{u, v} : u \in S, v \in S} \ {{u} : u \in S}

Ticking == {x \in Children \X {Cell0, Cell1} :
               x[2] \in DOMAIN sims[x[1]] /\ sims[x[1]][x[2]].pc = "tick"}

\* a tick of the Simulator of a region r that leaves every body u in one
\* of the poses P[r][u], with any contacts among the bodies
TickOf(x, P, max_age) ==
    /\ x \in Ticking
    /\ \E pose \in {f \in [TickBodies(x[1], x[2]) -> Poses \cup {Asleep0}] :
                       \A u \in DOMAIN f : f[u] \in P[x[2]][u]} :
          \E contacts \in SUBSET Pairs(TickBodies(x[1], x[2])) :
             SimTick(x[1], x[2], pose, contacts, max_age, TRUE)

Tick(P, max_age) == \E x \in Children \X {Cell0, Cell1} : TickOf(x, P, max_age)

\* the physics may leave a body anywhere
Anywhere == [r \in {Cell0, Cell1} |-> [u \in {1, 2} |-> Poses]]

\* the physics leaves every body in its region, and still
AtRest ==
    [r \in {Cell0, Cell1} |-> [u \in 1..3 |->
        {p \in {Inside0, Entering1} : from_aabb(p.aabb, DEFAULT_WIDTH) = r}]]

\* the second body is pushed to Cell0 and held there, the first one goes
\* back and forth
Pushed ==
    [r \in {Cell0, Cell1} |-> [u \in {1, 2} |->
        IF u = 1 THEN {Inside0, Entering1} ELSE {Inside0}]]

Insert(ps) ==
    \E regions \in Orders(request_regions(Request(ps))) :
       InsertObjects(Request(ps), regions)

\* a request of the client whose i-th body is to appear at step i - 1: the
\* first one at once, the second one a step later
RequestLater(ps) ==
    [i \in DOMAIN ps |-> [Request(ps)[i] EXCEPT !.timestamp = i - 1]]

(***************************************************************************)
(* Spec: the simulation of two bodies inserted in Cell0, kept running by   *)
(* the inputs of the client, on zero, one or two children.                 *)
(***************************************************************************)
Next ==
    \/ \E c \in Children : RegisterChild(c) /\ ~m.has_scene
    \/ CreateScene(SceneBounds)
    \/ Insert(<<Inside0, Inside0>>)
    \/ \E i \in 0..MaxLimit : ClientInput(i * NUM_INTERNAL_STEPS, MaxLimit)
    \/ \E w \in Children : WorkerRecvMain(w)
    \/ \E w \in Children : WorkerRecvMaster(w)
    \/ \E w \in Children : WorkerRecvChild(w)
    \/ \E w \in Children : \E src \in DOMAIN wk[w].zq_sims : WorkerRecvSim(w, src)
    \/ \E w \in Children : \E r \in DOMAIN sims[w] : SimInit(w, r)
    \/ \E w \in Children : \E r \in DOMAIN sims[w] : SimRecv(w, r)
    \/ Tick(Anywhere, 0)

Spec == Init /\ [][Next]_vars

(***************************************************************************)
(* SpecPause: the client also pauses and resumes; two bodies at rest, one  *)
(* in each cell.                                                           *)
(***************************************************************************)
NextPause ==
    \/ \E c \in Children : RegisterChild(c) /\ c = 1 /\ ~m.has_scene
    \/ CreateScene(SceneBounds) /\ Len(m.children) = 1
    \/ Insert(<<Inside0, Entering1>>)
    \/ \E i \in 0..MaxLimit : ClientInput(i * NUM_INTERNAL_STEPS, MaxLimit)
    \/ \E running \in BOOLEAN : StartStop(running)
    \/ \E w \in Children : WorkerRecvMain(w)
    \/ \E w \in Children : WorkerRecvMaster(w)
    \/ \E w \in Children : WorkerRecvChild(w)
    \/ \E w \in Children : \E r \in DOMAIN sims[w] : SimInit(w, r)
    \/ \E w \in Children : \E r \in DOMAIN sims[w] : SimRecv(w, r)
    \/ Tick(AtRest, 0)

SpecPause == Init /\ [][NextPause]_vars

(***************************************************************************)
(* SpecLong: one body inserted in Cell1 that the physics may push into     *)
(* Cell0, simulated past the sendback delay.                               *)
(***************************************************************************)
NextLong ==
    \/ \E c \in Children : RegisterChild(c) /\ c = 1 /\ ~m.has_scene
    \/ CreateScene(SceneBounds) /\ Len(m.children) = 1
    \/ Insert(<<Entering1, Entering1>>)
    \/ /\ inserted # {}
       /\ \A w \in Children : wk[w].zq_master = <<>>
       /\ ClientInput((LongLimit - 2) * NUM_INTERNAL_STEPS, LongLimit)
    \/ \E w \in Children : WorkerRecvMain(w)
    \/ \E w \in Children : WorkerRecvMaster(w)
    \/ \E w \in Children : WorkerRecvChild(w)
    \/ \E w \in Children : \E r \in DOMAIN sims[w] : SimInit(w, r)
    \/ \E w \in Children : \E r \in DOMAIN sims[w] : SimRecv(w, r)
    \/ Tick(Pushed, MaxAge)

SpecLong == Init /\ [][NextLong]_vars

(***************************************************************************)
(* SpecFair: one body inserted in Cell0 on two children, with the threads  *)
(* of the Workers and of the Simulators scheduled.                         *)
(***************************************************************************)
NextFair ==
    \/ \E c \in Children : RegisterChild(c) /\ ~m.has_scene
    \/ CreateScene(SceneBounds) /\ Len(m.children) = 2
    \/ Insert(<<Inside0>>)
    \/ \E i \in 0..FairLimit : ClientInput(i * NUM_INTERNAL_STEPS, FairLimit)
    \/ \E w \in Children : WorkerRecvMain(w)
    \/ \E w \in Children : WorkerRecvMaster(w)
    \/ \E w \in Children : WorkerRecvChild(w)
    \/ \E w \in Children : \E src \in DOMAIN wk[w].zq_sims : WorkerRecvSim(w, src)
    \/ \E w \in Children : \E r \in DOMAIN sims[w] : SimInit(w, r)
    \/ \E w \in Children : \E r \in DOMAIN sims[w] : SimRecv(w, r)
    \/ Tick(Anywhere, 0)

\* main_messages_loop and run_simulation are loops of threads of their own:
\* a Worker with a message to handle handles one, a Simulator with a message
\* or a step to do does it.  The weak fairness of SimInit and of TickOf is
\* written out, []<>(~ENABLED <<A>>_vars) \/ []<><<A>>_vars, with the states
\* that enable the action for ENABLED <<A>>_vars
Scheduling ==
    \A w \in Children :
       /\ WF_vars(WorkerRecvMain(w))
       /\ WF_vars(WorkerRecvMaster(w))
       /\ WF_vars(WorkerRecvChild(w))
       /\ WF_vars(\E src \in DOMAIN wk[w].zq_sims : WorkerRecvSim(w, src))
       /\ \A r \in {Cell0, Cell1} :
             /\ WF_vars(SimRecv(w, r))
             /\ \/ []<>(~(/\ wk[w].up /\ ~wk[w].crashed
                          /\ r \in DOMAIN sims[w] /\ sims[w][r].pc = "init"))
                \/ []<><<SimInit(w, r)>>_vars
             /\ \/ []<>(~(wk[w].up /\ ~wk[w].crashed /\ <<w, r>> \in Ticking))
                \/ []<><<TickOf(<<w, r>>, Anywhere, 0)>>_vars

SpecFair == Init /\ [][NextFair]_vars /\ Scheduling

(***************************************************************************)
(* SpecFault: one body inserted in Cell0 on two children and pushed back   *)
(* and forth between the cells, with a transport that may fail when a      *)
(* Simulator sends an AssignIsland.                                        *)
(***************************************************************************)
NextFault ==
    \/ \E c \in Children : RegisterChild(c) /\ ~m.has_scene
    \/ CreateScene(SceneBounds) /\ Len(m.children) = 2
    \/ Insert(<<Inside0>>)
    \/ \E i \in 0..MaxLimit : ClientInput(i * NUM_INTERNAL_STEPS, MaxLimit)
    \/ \E w \in Children : WorkerRecvMain(w)
    \/ \E w \in Children : WorkerRecvMaster(w)
    \/ \E w \in Children : WorkerRecvChild(w)
    \/ \E w \in Children : \E src \in DOMAIN wk[w].zq_sims : WorkerRecvSim(w, src)
    \/ \E w \in Children : \E r \in DOMAIN sims[w] : SimInit(w, r)
    \/ \E w \in Children : \E r \in DOMAIN sims[w] : SimRecv(w, r)
    \/ Tick(Anywhere, 0)
    \/ \E x \in Ticking :
          \E pose \in {f \in [TickBodies(x[1], x[2]) -> Poses] :
                          \A u \in DOMAIN f : f[u] \in Anywhere[x[2]][u]} :
             /\ SimTick(x[1], x[2], pose, {}, 0, FALSE)
             /\ sims'[x[1]][x[2]].pc = "dead"

SpecFault == Init /\ [][NextFault]_vars

(***************************************************************************)
(* SpecShared: two scenes on one Master with one child.  The first scene   *)
(* is the one of the other specifications, with one body at rest in Cell0; *)
(* the second one is created after it, gets one input of its client and    *)
(* the acks of its steps.                                                  *)
(***************************************************************************)
NextShared ==
    \/ \E c \in Children : RegisterChild(c) /\ c = 1 /\ ~m.has_scene
    \/ CreateScene(SceneBounds) /\ Len(m.children) = 1
    \/ Insert(<<Inside0>>)
    \/ \E i \in 0..MaxLimit : ClientInput(i * NUM_INTERNAL_STEPS, MaxLimit)
    \/ \E request \in {"create_scene", "client_input", "ack"} :
          /\ request = "create_scene" => m.has_scene /\ ~m.other.has_scene
          /\ request = "client_input" => m.other.has_scene
          /\ request = "ack" => m.other.in_flight > 0
          /\ \E st \in {other_scene(Now, request, 0)} : Becomes(st)
          /\ UNCHANGED <<sims, tick, inserted>>
    \/ \E w \in Children : WorkerRecvMain(w)
    \/ \E w \in Children : WorkerRecvMaster(w)
    \/ \E w \in Children : WorkerRecvChild(w)
    \/ \E w \in Children : \E r \in DOMAIN sims[w] : SimInit(w, r)
    \/ \E w \in Children : \E r \in DOMAIN sims[w] : SimRecv(w, r)
    \/ Tick(AtRest, 0)

SpecShared == Init /\ [][NextShared]_vars

(***************************************************************************)
(* SpecLate: as SpecFair, with one child registered when the client        *)
(* creates the scene and a second child that registers at any time.        *)
(***************************************************************************)
NextLate ==
    \/ \E c \in Children : RegisterChild(c)
    \/ CreateScene(SceneBounds) /\ Len(m.children) = 1
    \/ Insert(<<Inside0>>)
    \/ \E i \in 0..MaxLimit : ClientInput(i * NUM_INTERNAL_STEPS, MaxLimit)
    \/ \E w \in Children : WorkerRecvMain(w)
    \/ \E w \in Children : WorkerRecvMaster(w)
    \/ \E w \in Children : WorkerRecvChild(w)
    \/ \E w \in Children : \E r \in DOMAIN sims[w] : SimInit(w, r)
    \/ \E w \in Children : \E r \in DOMAIN sims[w] : SimRecv(w, r)
    \/ Tick(Anywhere, 0)

SpecLate == Init /\ [][NextLate]_vars /\ Scheduling

(***************************************************************************)
(* SpecScene: the life of a scene on zero or one child: the client creates *)
(* it, inserts a body at rest and a floor, inserts one body more, removes  *)
(* the scene; acks and steps reach the Master out of protocol.             *)
(***************************************************************************)
NextScene ==
    \/ \E c \in Children : RegisterChild(c) /\ c = 1 /\ ~m.has_scene
    \/ CreateScene(SceneBounds)
    \/ \E regions \in Orders(request_regions(RequestOnFloor(<<Inside0>>))) :
          InsertObjects(RequestOnFloor(<<Inside0>>), regions)
    \/ InsertObjects(<<[Request(<<Inside0>>)[1] EXCEPT !.uuid = 3]>>, <<Cell0>>)
    \/ RemoveScene
    \/ StrayAck
    \/ StrayStep(1)
    \/ \E i \in 0..MaxLimit : ClientInput(i * NUM_INTERNAL_STEPS, MaxLimit)
    \/ \E w \in Children : WorkerRecvMain(w)
    \/ \E w \in Children : WorkerRecvMaster(w)
    \/ \E w \in Children : WorkerRecvChild(w)
    \/ \E w \in Children : \E r \in DOMAIN sims[w] : SimInit(w, r)
    \/ \E w \in Children : \E r \in DOMAIN sims[w] : SimRecv(w, r)
    \/ Tick(AtRest, 0)

SpecScene == Init /\ [][NextScene]_vars

(***************************************************************************)
(* SpecSleep: two bodies inserted in Cell0 on one child, the second one to *)
(* appear a step later; the physics leaves them there, awake or asleep,    *)
(* and a client asks the Worker for the bodies of the cells.               *)
(***************************************************************************)
NextSleep ==
    \/ \E c \in Children : RegisterChild(c) /\ c = 1 /\ ~m.has_scene
    \/ CreateScene(SceneBounds) /\ Len(m.children) = 1
    \/ \E regions \in Orders(request_regions(RequestLater(<<Inside0, Inside0>>))) :
          InsertObjects(RequestLater(<<Inside0, Inside0>>), regions)
    \/ \E i \in 0..MaxLimit : ClientInput(i * NUM_INTERNAL_STEPS, MaxLimit)
    \/ \E w \in Children : \E region \in {Cell0, Cell1} : \E i \in 0..1 :
          ClientBodies(w, region, i * NUM_INTERNAL_STEPS)
    \/ \E w \in Children : WorkerRecvMain(w)
    \/ \E w \in Children : WorkerRecvMaster(w)
    \/ \E w \in Children : WorkerRecvChild(w)
    \/ \E w \in Children : \E r \in DOMAIN sims[w] : SimInit(w, r)
    \/ \E w \in Children : \E r \in DOMAIN sims[w] : SimRecv(w, r)
    \/ Tick([r \in {Cell0, Cell1} |-> [u \in {1, 2} |-> {Inside0, Asleep0}]], 0)

SpecSleep == Init /\ [][NextSleep]_vars

(***************************************************************************)
(* The step protocol.                                                      *)
(***************************************************************************)
\* the Step messages of a queue
StepsOf(q) == {q[i] : i \in {j \in DOMAIN q : q[j].type = "Step"}}

\* the Acks of a queue
AcksOf(q) == {q[i] : i \in {j \in DOMAIN q : q[j].type = "Ack"}}

\* the steps a Simulator has received and not finished: the one it is
\* ticking and the ones waiting in its channel
Unfinished(sim) ==
    {sim.step_id : x \in {y \in {sim.pc} : y = "tick"}}
        \cup {message.step_id : message \in StepsOf(sim.chan)}

\* C1 (ack completeness): when the Master has issued Step k+1, no child,
\* Worker or Simulator still has a Step k to handle or to finish, and every
\* Ack a Worker is about to count was posted for the step the Worker counts
AckCompleteness ==
    \A w \in Children :
       /\ \A message \in StepsOf(wk[w].zq_child) : message.step_id >= m.issued
       /\ \A r \in DOMAIN sims[w] : \A k \in Unfinished(sims[w][r]) : k >= m.issued
       /\ \A message \in AcksOf(wk[w].mq) : message.step_id = wk[w].step_id

\* C2 (lock-step ordering): no Simulator is ticking a step while a Simulator
\* of the scene has received an earlier step and not finished it
LockStep ==
    \A w \in Children : \A r \in DOMAIN sims[w] :
       sims[w][r].pc = "tick" =>
          \A v \in Children : \A q \in DOMAIN sims[v] :
             \A k \in Unfinished(sims[v][q]) : k >= sims[w][r].step_id

(***************************************************************************)
(* Ownership of the bodies.                                                *)
(***************************************************************************)
\* the Simulators of the scene, as pairs <<Worker, region>>
Simulators == {x \in Children \X {Cell0, Cell1} : x[2] \in DOMAIN sims[x[1]]}

\* the live body set of a Simulator: the dynamic bodies of its world
Live(x) == dynamic_bodies(sims[x[1]][x[2]].bodies)

\* every Step sent so far has been carried out and acked up to the Workers
StepCompleted ==
    \A w \in Children :
       /\ StepsOf(wk[w].zq_child) = {}
       /\ AcksOf(wk[w].mq) = {}
       /\ wk[w].pending_acks = 0
       /\ \A r \in DOMAIN sims[w] : Unfinished(sims[w][r]) = {}

\* C3 (P1, single owner): after a completed step, no body is in the live
\* body set of two Region Simulators
SingleOwner ==
    StepCompleted =>
       \A x \in Simulators : \A y \in Simulators \ {x} : Live(x) \cap Live(y) = {}

\* after a completed step, a body inserted in Cell0 lives in Cell1 on another
\* Worker than the one of Cell0, where the other body still lives
SingleOwnerWitness ==
    /\ StepCompleted
    /\ \E x \in Simulators : \E y \in Simulators :
          /\ x[1] # y[1]
          /\ x[2] = Cell0 /\ Live(x) = {1}
          /\ y[2] = Cell1 /\ Live(y) = {2}

\* the AssignIsland messages of a queue that a Simulator sent to region r
IslandsOf(q, r) ==
    {q[i] : i \in {j \in DOMAIN q : /\ q[j].type = "AssignIsland"
                                     /\ q[j].origin = "sim"
                                     /\ q[j].region = r}}

\* the islands migrated to region r that no Simulator of r has taken yet:
\* in a main-thread channel, in a command queue or in the Simulator's channel
InFlight(r) ==
    UNION {IslandsOf(wk[w].mq, r) : w \in Children}
      \cup UNION {IslandsOf(wk[x[1]].zq_sims[x[2]], r) :
                    x \in {y \in Children \X {Cell0, Cell1} :
                              y[2] \in DOMAIN wk[y[1]].zq_sims}}
      \cup UNION {IslandsOf(sims[x[1]][r].chan, r) :
                    x \in {y \in Simulators : y[2] = r}}

\* the steps at which the bodies of the islands in flight to r were migrated
MigratedAt(r) ==
    UNION {{message.bodies[i].timestamp : i \in DOMAIN message.bodies} :
              message \in InFlight(r)}

\* C4 (P2, migration closure): a Simulator integrating step k has in its
\* live set every body migrated to its region at the end of an earlier step,
\* whether the island came through the local channel or a command queue
MigrationClosure ==
    \A x \in Simulators :
       sims[x[1]][x[2]].pc = "tick" =>
          \A k \in MigratedAt(x[2]) : k >= sims[x[1]][x[2]].step_id

(***************************************************************************)
(* Ownership of the regions.                                               *)
(***************************************************************************)
\* the AssignIsland messages a Worker has been sent and not dispatched yet
IslandsAt(w) ==
    LET islands(q) == {q[i] : i \in {j \in DOMAIN q : q[j].type = "AssignIsland"}}
    IN  islands(wk[w].mq) \cup islands(wk[w].zq_master)
          \cup UNION {islands(wk[w].zq_sims[src]) : src \in DOMAIN wk[w].zq_sims}

\* the Worker the Master recorded for a region is w
Assigned(region, w) == region \in DOMAIN m.assigned /\ m.assigned[region] = w

\* C5 (region ownership): a Region Simulator runs on the Worker the Master
\* recorded for its region, so a region has one Simulator at most, and an
\* AssignIsland for a region, of the client's insertion or of a migration,
\* is sent to that Worker
RegionOwnership ==
    /\ \A x \in Simulators : Assigned(x[2], x[1])
    /\ \A w \in Children : \A message \in IslandsAt(w) : Assigned(message.region, w)

\* each of the two regions has its Simulator, on two Workers, and a migrated
\* island is on its way in a command queue
RegionOwnershipWitness ==
    /\ \E x \in Simulators : \E y \in Simulators : x[1] # y[1]
    /\ \E w \in Children : \E message \in IslandsAt(w) :
          message.origin = "sim" /\ message \notin SeqToSet(wk[w].mq)

(***************************************************************************)
(* The watch sets.                                                         *)
(***************************************************************************)
\* the box lies within the cell of the region, bounds included
Within(region, box) ==
    \A k \in Axes : region.mins[k] <= box.mins[k] /\ box.maxs[k] <= region.maxs[k]

\* the watch set the Simulator of the last tick has published
Published == wk[tick.w].watch_sets[tick.region]

\* C6 (P3, watch inclusion): the watch set a Simulator publishes at a tick
\* holds the bodies it owns that it does not migrate at this tick and whose
\* swept AABB is not within its region, with that swept AABB, and no other
WatchInclusion ==
    tick.valid =>
       /\ tick.region \in DOMAIN wk[tick.w].watch_sets
       /\ {o.uuid : o \in Published} =
              {u \in tick.owned \ tick.reassigned :
                  ~Within(tick.region, tick.pose[u].swept)}
       /\ \A o \in Published :
              o.aabb = tick.pose[o.uuid].swept /\ ~Within(tick.region, o.aabb)

\* a tick of Cell0 with a body about to cross, published, and a body that
\* has crossed, whose swept AABB reaches out of Cell0 too, migrated
WatchInclusionWitness ==
    /\ tick.valid
    /\ tick.region = Cell0
    /\ \E u \in tick.owned : \E v \in tick.owned :
          /\ tick.pose[u] = Leaving0 /\ u \in {o.uuid : o \in Published}
          /\ tick.pose[v] = Entering1 /\ v \in tick.reassigned

(***************************************************************************)
(* The election of the last tick.                                          *)
(***************************************************************************)
\* the components the last tick migrated
Migrated == {cc \in tick.components : cc \subseteq tick.reassigned /\ cc # {}}

\* C7 (P4, election order): the region elected for a component that a
\* Simulator of region B migrates is not B; it is greater than B, or it is
\* smaller than B and the sendback-delay counter of every body of the
\* component had reached MIN_SENDBACK_DELAY
ElectionOrder ==
    tick.valid =>
       \A cc \in Migrated :
          /\ tick.cc_regions[cc] # tick.region
          /\ \/ Gt(tick.cc_regions[cc], tick.region)
             \/ /\ Lt(tick.cc_regions[cc], tick.region)
                /\ \A u \in cc : tick.before[u].user_data >= MIN_SENDBACK_DELAY

\* a component of two bodies is sent back to the smaller region
ElectionOrderWitness ==
    /\ tick.valid
    /\ \E cc \in Migrated :
          /\ Cardinality(cc) = 2
          /\ Lt(tick.cc_regions[cc], tick.region)

\* C9 (oscillation hysteresis): a body is not migrated to a smaller region
\* during its first MIN_SENDBACK_DELAY ticks in the region it arrived in
Hysteresis ==
    tick.valid =>
       \A cc \in Migrated :
          Lt(tick.cc_regions[cc], tick.region) =>
             \A u \in cc : tick.before[u].age > MIN_SENDBACK_DELAY

\* a body is sent back alone at a tick later than its first tick past the
\* delay, while the other body, which crossed back less often, stays
HysteresisWitness ==
    /\ tick.valid
    /\ tick.region = Cell1
    /\ tick.owned = {1, 2}
    /\ tick.reassigned = {2}
    /\ Lt(tick.cc_regions[{2}], tick.region)
    /\ tick.before[1].user_data < tick.before[1].age - 1

\* the messages a step appends to a queue
Appended(before, after) == {after[i] : i \in Len(before) + 1 .. Len(after)}

\* the AssignIsland messages the Simulator of region r posts in this step,
\* on the main-thread channel of its Worker or on a command queue
Posted(r) ==
    LET islands(S) == {message \in S : message.type = "AssignIsland"}
    IN  UNION {islands(Appended(wk[w].mq, wk'[w].mq))
                 \cup islands(Appended(QGet(wk[w].zq_sims, r), QGet(wk'[w].zq_sims, r))) :
               w \in Children}

\* the uuids of the bodies of an AssignIsland
Carried(message) == {message.bodies[i].uuid : i \in DOMAIN message.bodies}

\* the step is a tick of a Simulator
Ticked == tick' # tick

\* what C8 asks of a tick
AtomicTick ==
    \A cc \in tick'.components :
       LET elected == tick'.cc_regions[cc]
           candidates == {tick'.cand[u] : u \in cc}
           carrying == {message \in Posted(tick'.region) : Carried(message) \cap cc # {}}
           left == DOMAIN sims'[tick'.w][tick'.region].bodies
       IN  /\ elected \in candidates
           /\ \A other \in candidates : ~Gt(other, elected)
           /\ IF elected = tick'.region
              THEN carrying = {} /\ cc \subseteq left
              ELSE /\ \E message \in carrying :
                        /\ carrying = {message}
                        /\ message.region = elected
                        /\ cc \subseteq Carried(message)
                   /\ cc \cap left = {}

\* C8 (component migration is atomic): at every tick, the region elected
\* for a connected component is the greatest of the candidates of its
\* bodies; when it is not the Simulator's region, one AssignIsland to that
\* region, posted in this tick, carries all the bodies of the component, no
\* other message carries any of them and none of them is left in the source
AtomicMigration == [][Ticked => AtomicTick]_vars

\* a component of two bodies, one of them a candidate for staying, has been
\* migrated as a whole
AtomicMigrationWitness ==
    /\ tick.valid
    /\ \E cc \in Migrated : \E u \in cc : \E v \in cc :
          /\ tick.cand[u] = tick.region
          /\ tick.cand[v] # tick.region
          /\ cc \cap DOMAIN sims[tick.w][tick.region].bodies = {}

(***************************************************************************)
(* The watch sets read.                                                    *)
(***************************************************************************)
\* the 26 regions around a region of the grid
Around(region) ==
    {relative_neighbor(region, shift) :
        shift \in [1..3 -> {-1, 0, 1}] \ {[k \in 1..3 |-> 0]}}

\* the three neighbors of a region across its faces on the positive side
Ahead(region) ==
    {relative_neighbor(region, [k \in 1..3 |-> IF k = i THEN 1 ELSE 0]) : i \in 1..3}

\* the regions whose watch sets the last tick read
ReadRegions == {x.region : x \in tick.read}

PublishedUuids == {o.uuid : o \in Published}

\* the maximum corner of the AABB of body u has passed into a positive
\* neighbor of the region of the last tick
Crossing(u) == from_aabb(tick.pose[u].aabb, DEFAULT_WIDTH) \in Ahead(tick.region)

\* C11 as stated (boundary crossing): a body is migrated in the tick in
\* which the maximum corner of its AABB passes into the positive neighbor,
\* and it is in the watch set its region publishes in that tick and in no
\* other tick
CrossingWatched ==
    tick.valid =>
       \A u \in tick.owned :
          /\ Crossing(u) => u \in tick.reassigned
          /\ u \in PublishedUuids <=> Crossing(u)

\* C11 amended: a body is migrated, to a greater region, in the tick in
\* which the maximum corner of its AABB has passed into the positive
\* neighbor, if not earlier; it is not in the watch set its region publishes
\* in the tick that migrates it, and it is in the watch set of every other
\* tick that leaves its swept AABB reaching out of the region
BoundaryCrossing ==
    tick.valid =>
       \A u \in tick.owned :
          /\ Crossing(u) =>
                /\ u \in tick.reassigned
                /\ u \notin DOMAIN sims[tick.w][tick.region].bodies
                /\ \A cc \in tick.components :
                      u \in cc => Gt(tick.cc_regions[cc], tick.region)
          /\ u \in tick.reassigned => u \notin PublishedUuids
          /\ u \notin tick.reassigned =>
                (u \in PublishedUuids <=> ~Within(tick.region, tick.pose[u].swept))

\* a body has crossed from Cell0 to Cell1: it has left Cell0 in an island on
\* its way to Cell1 and the watch set of Cell0 is without it
BoundaryCrossingWitness ==
    /\ tick.valid
    /\ tick.region = Cell0
    /\ \E u \in tick.owned :
          /\ tick.pose[u] = Entering1
          /\ u \notin PublishedUuids
          /\ \E w \in Children : \E message \in IslandsAt(w) :
                message.region = Cell1 /\ u \in Carried(message)

(***************************************************************************)
(* The step limit.                                                         *)
(***************************************************************************)
\* a step that changes the step limit is the handling of a client input at
\* some step_id, and leaves the larger of the limit before it and of
\* step_id / NUM_INTERNAL_STEPS + 2
LimitRaised ==
    m'.step_limit # m.step_limit =>
       \E i \in 0..FairLimit :
          /\ Becomes(handle_client_inputs(Now, i * NUM_INTERNAL_STEPS))
          /\ m'.step_limit =
                IF (i * NUM_INTERNAL_STEPS) \div NUM_INTERNAL_STEPS + 2 > m.step_limit
                THEN (i * NUM_INTERNAL_STEPS) \div NUM_INTERNAL_STEPS + 2
                ELSE m.step_limit

\* no Step is on its way to a Worker or to a Simulator, no Simulator steps
Quiet ==
    \A w \in Children :
       /\ StepsOf(wk[w].zq_child) = {}
       /\ \A r \in DOMAIN sims[w] :
             StepsOf(sims[w][r].chan) = {} /\ sims[w][r].pc # "tick"

\* the scene is idle
Idle == ~m.running /\ Quiet

\* C12 (client input is the sole clock): the step limit changes only by a
\* client input, to max(limit, step_id / N + 2); the Master issues no Step
\* whose id exceeds the limit; and with the inputs of the client at an end
\* the scene becomes idle and stays so
ClientClock ==
    /\ [][LimitRaised]_vars
    /\ [](m.issued <= m.step_limit)
    /\ <>[]Idle

\* the client has raised the limit to FairLimit and the scene is idle again,
\* every step up to the limit issued
ClientClockWitness ==
    /\ Idle
    /\ m.step_limit = FairLimit
    /\ m.issued = m.step_limit
    /\ m.step_id = m.step_limit + 1

\* the step is the handling of a client input at step_id
Input(step_id) ==
    /\ m.has_scene
    /\ Becomes(handle_client_inputs(Now, step_id))
    /\ UNCHANGED <<sims, tick, inserted>>

\* C13 (client_input starts stepping if idle): a client input handled
\* while the scene is idle, with the step the Master is at within the raised
\* limit (step <= limit, the bound of the ack chain), makes the Master issue
\* that Step
InputStarts ==
    [][\A i \in 0..FairLimit :
          (Input(i * NUM_INTERNAL_STEPS) /\ ~m.running /\ m.step_id <= m'.step_limit)
             => (m'.running /\ m'.issued = m.step_id)]_vars

(***************************************************************************)
(* The step rounds.                                                        *)
(***************************************************************************)
\* C14 (step rounds never deadlock): with the threads scheduled, every Step
\* k the Master issues is acked by every child it was sent to, and the
\* Master goes on to the step after k
StepRounds == \A k \in 0..FairLimit : (m.issued = k) ~> (m.step_id > k)

(***************************************************************************)
(* Children registered after create_scene.                                 *)
(***************************************************************************)
\* the children that take part in the scene: those create_scene has given
\* bounds and a Worker to
Participants == 1..Len(m.children_bounds)

\* C18 (a child registered after create_scene does not participate): the
\* Master waits for the acks of the children of the scene only, and assigns
\* the regions of the scene to their Workers only
LateChildApart ==
    m.has_scene =>
       /\ m.pending_acks <= Cardinality(Participants)
       /\ \A region \in DOMAIN m.assigned : m.assigned[region] \in Participants

(***************************************************************************)
(* Region allocation.                                                      *)
(***************************************************************************)
\* C15 (assign_runner is idempotent): in every state, a call of
\* assign_runner for a region that returns a Worker returns one of the
\* Workers created for the scene; it returns the recorded Worker and changes
\* nothing if the region is assigned, and records the Worker it returns
\* otherwise; the same call again returns the same Worker and changes nothing
AssignIdempotent ==
    \A region \in {Cell0, Cell1} :
       LET first == assign_runner(Now, region)
           again == assign_runner(first.st, region)
       IN  first.uuid # 0 =>
              /\ first.uuid \in SeqToSet(m.per_node)
              /\ region \in DOMAIN m.assigned =>
                    first.uuid = m.assigned[region] /\ first.st = Now
              /\ first.st = [Now EXCEPT !.m.assigned = MapPut(@, region, first.uuid)]
              /\ again = first

\* Cell0 has been assigned to a Worker and Cell1 has not: a call for Cell0
\* is a later call and a call for Cell1 a first one, and both return a Worker
AssignIdempotentWitness ==
    /\ Cell0 \in DOMAIN m.assigned
    /\ Cell1 \notin DOMAIN m.assigned
    /\ assign_runner(Now, Cell0).uuid = 1
    /\ assign_runner(Now, Cell1).uuid = 2

(***************************************************************************)
(* The removal of a scene.                                                 *)
(***************************************************************************)
\* the Exit messages on their way to the Worker w
ExitsTo(w) ==
    Len(SelectSeq(wk[w].zq_master \o wk[w].zq_child, LAMBDA x : x.type = "Exit"))

\* C16 (remove_scene is idempotent): in every state, created scene or not,
\* remove_scene applied twice leaves the partitionners and the queues of the
\* Workers as remove_scene applied once does: the second application
\* changes nothing and sends no Exit
RemoveIdempotent == remove_scene(remove_scene(Now)) = remove_scene(Now)

\* the client has removed the scene twice, after it had a Worker: the
\* Worker has got, or has still to get, the Exit messages of one removal
RemoveIdempotentWitness ==
    /\ m.removals = 2
    /\ m.exited
    /\ wk[1].up
    /\ ExitsTo(1) + (IF wk[1].exit THEN 1 ELSE 0) = 2

\* C17 (create_scene then remove_scene leaves nothing): when the client
\* removes a scene it has created, whatever it has inserted, the Master is
\* left with no Workers, no region assignments and no static bodies for it
NoResidue ==
    [][(m'.removals # m.removals /\ m.has_scene) =>
          /\ ~m'.has_per_node
          /\ DOMAIN m'.assigned = {}
          /\ m'.static_bodies = <<>>]_vars

(***************************************************************************)
(* A scene on a Master without children.                                   *)
(***************************************************************************)
\* C19 (scene without children): on a Master with no child, create_scene
\* succeeds, list_regions is empty, and every insert_objects that follows
\* is answered by a client error
ChildlessScene ==
    /\ []((m.has_scene /\ m.children = <<>>) => list_regions(Now) = {})
    /\ [][(m.children = <<>> /\ ~m.has_scene /\ m'.has_scene) =>
             m'.response = "OK"]_vars
    /\ [][(m.children = <<>> /\ m.has_scene /\ inserted' # inserted) =>
             m'.response = "BAD_REQUEST"]_vars

(***************************************************************************)
(* Acks and steps out of protocol.                                         *)
(***************************************************************************)
\* C20 (protocol violations are ignored): an ack that reaches the Master
\* while no step of the scene is in flight, or an ack or a step for a scene
\* the Master does not know, leaves pending, step, limit and the running
\* flag as they are, and no Step is sent
StraysIgnored ==
    [][m'.strays # m.strays =>
          /\ m'.pending_acks = m.pending_acks
          /\ m'.step_id = m.step_id
          /\ m'.step_limit = m.step_limit
          /\ m'.running = m.running
          /\ m'.issued = m.issued
          /\ wk' = wk /\ ch' = ch]_vars

(***************************************************************************)
(* Exit.                                                                   *)
(***************************************************************************)
\* C21 (Exit is terminal and idempotent): once a Worker has handled Exit,
\* none of its Simulators starts a tick, none posts an Ack or another
\* message to it, each leaves its message loop Killed only, and nothing
\* that reaches the Worker later, a second Exit included, changes its state
\* or sends a message to a Simulator
ExitTerminal ==
    [][\A w \in Children :
          wk[w].exit =>
             /\ \A r \in DOMAIN sims[w] :
                   /\ sims'[w][r].pc = "tick" => sims[w][r].pc = "tick"
                   /\ sims[w][r].pc = "recv" => sims'[w][r].pc \in {"recv", "killed"}
                   /\ Len(sims'[w][r].chan) <= Len(sims[w][r].chan)
             /\ DOMAIN sims'[w] = DOMAIN sims[w]
             /\ wk'[w].mq = wk[w].mq
             /\ wk'[w].exit
             /\ wk'[w].pending_acks = wk[w].pending_acks
             /\ wk'[w].step_id = wk[w].step_id
             /\ wk'[w].static_bodies = wk[w].static_bodies]_vars

(***************************************************************************)
(* The static bodies.                                                      *)
(***************************************************************************)
\* C22 (static body reach): at every tick of a Region Simulator, the world
\* it steps holds every static body inserted into the scene before the tick,
\* whichever Worker the Simulator runs on and whatever created it
StaticReach ==
    [][Ticked =>
          \A i \in DOMAIN m.static_bodies :
             m.static_bodies[i].uuid \in DOMAIN sims'[tick'.w][tick'.region].bodies]_vars

(***************************************************************************)
(* The client snapshots.                                                   *)
(***************************************************************************)
\* the inserts have been processed and no Simulator has ticked yet: the
\* Master has sent the bodies of a request, the Workers have handled what the
\* Master sent and the Simulators what the Workers passed on
InsertsProcessed ==
    /\ ~tick.valid
    /\ DOMAIN m.assigned # {}
    /\ ~m.exited
    /\ \A w \in Children :
          /\ wk[w].zq_master = <<>>
          /\ wk[w].mq = <<>>
          /\ \A r \in DOMAIN sims[w] :
                sims[w][r].pc = "recv" /\ sims[w][r].chan = <<>>

\* the bodies of the client snapshots published in the scene
SnapshotUuids ==
    UNION {{o.uuid : o \in wk[x[1]].client_object_sets[x[2]].objects} :
              x \in {y \in Children \X {Cell0, Cell1} :
                        y[2] \in DOMAIN wk[y[1]].client_object_sets}}

\* C23 as stated (insert_objects followed by zero ticks): when the inserts
\* have been processed and no Simulator has ticked yet, the bodies of the
\* client snapshots published by the Simulators, taken together, are the
\* bodies inserted
ZeroTickSnapshot == InsertsProcessed => SnapshotUuids = inserted

\* C23 amended: when the inserts have been processed and no Simulator has
\* ticked yet, the bodies of the client snapshots, taken together, are the
\* dynamic bodies inserted; the static bodies inserted are in no snapshot
ZeroTickDynamic ==
    InsertsProcessed =>
       SnapshotUuids =
          inserted \ {m.static_bodies[i].uuid : i \in DOMAIN m.static_bodies}

\* a body and a floor have been inserted and processed: the snapshot of
\* Cell0 holds the body
ZeroTickDynamicWitness ==
    /\ InsertsProcessed
    /\ inserted = {1, 2}
    /\ m.static_bodies # <<>>
    /\ wk[1].static_bodies # <<>>
    /\ Cell0 \in DOMAIN wk[1].client_object_sets
    /\ {o.uuid : o \in wk[1].client_object_sets[Cell0].objects} = {1}

(***************************************************************************)
(* C24 (P6, snapshot freshness): the reply to a client query for region r  *)
(* at step s holds exactly the objects of the latest stored snapshot of r  *)
(* whose sleep_start_frame is unset or at least s, with the timestamp of   *)
(* that snapshot; the reply for a region without snapshot is empty.        *)
(***************************************************************************)
SnapshotFreshness ==
    [][\A w \in Children :
          wk'[w].reply # wk[w].reply =>
             LET q == wk'[w].reply[1]
                 stored == wk[w].client_object_sets
             IN  IF q.region \in DOMAIN stored
                 THEN /\ q.data.timestamp = stored[q.region].timestamp
                      /\ \A obj \in stored[q.region].objects :
                            obj \in q.data.objects <=>
                               \/ obj.sleep_start_frame = <<>>
                               \/ obj.sleep_start_frame[1] >= q.step_id
                      /\ q.data.objects \subseteq stored[q.region].objects
                 ELSE q.data.objects = {}]_vars

\* a reply that dropped the body asleep since before the step of the query
\* and kept the one that fell asleep at that step
SnapshotFreshnessWitness ==
    /\ wk[1].reply # <<>>
    /\ wk[1].reply[1].region = Cell0
    /\ wk[1].reply[1].step_id = NUM_INTERNAL_STEPS
    /\ Cell0 \in DOMAIN wk[1].client_object_sets
    /\ wk[1].client_object_sets[Cell0].objects =
          {[uuid |-> 1, sleep_start_frame |-> <<0>>],
           [uuid |-> 2, sleep_start_frame |-> <<NUM_INTERNAL_STEPS>>]}
    /\ wk[1].reply[1].data.objects =
          {[uuid |-> 2, sleep_start_frame |-> <<NUM_INTERNAL_STEPS>>]}

(***************************************************************************)
(* C25 (sleep marker lifecycle): within one Simulator the sleep marker of  *)
(* a body is unset while the body is awake, is set to step_id * N by the   *)
(* first snapshot that sees it asleep, keeps that value in the later       *)
(* snapshots while the body stays asleep, and is unset by the first        *)
(* snapshot that sees it awake; every snapshot publishes the marker.       *)
(***************************************************************************)
SleepMarkerLifecycle ==
    [][\A w \in Children : \A r \in DOMAIN sims[w] \cap DOMAIN sims'[w] :
          /\ \A u \in DOMAIN sims'[w][r].bodies :
                LET old == IF u \in DOMAIN sims[w][r].bodies
                           THEN sims[w][r].bodies[u].sleep_step_id
                           ELSE <<>>
                    body == sims'[w][r].bodies[u]
                IN  body.sleep_step_id =
                       IF ~body.sleeping THEN <<>>
                       ELSE IF old = <<>>
                            THEN <<sims'[w][r].step_id * NUM_INTERNAL_STEPS>>
                            ELSE old
          /\ (r \in DOMAIN wk'[w].client_object_sets
               /\ wk'[w].client_object_sets # wk[w].client_object_sets)
              => \A u \in DOMAIN sims'[w][r].bodies :
                    [uuid |-> u,
                     sleep_start_frame |-> sims'[w][r].bodies[u].sleep_step_id]
                       \in wk'[w].client_object_sets[r].objects]_vars

\* the snapshot of step 2 still shows the first body asleep since step 0,
\* and the second one asleep since step 2
SleepMarkerLifecycleWitness ==
    /\ tick.valid /\ tick.step_id = 2
    /\ Cell0 \in DOMAIN wk[1].client_object_sets
    /\ wk[1].client_object_sets[Cell0] =
          [timestamp |-> 2 * NUM_INTERNAL_STEPS,
           objects |-> {[uuid |-> 1, sleep_start_frame |-> <<0>>],
                        [uuid |-> 2,
                         sleep_start_frame |-> <<2 * NUM_INTERNAL_STEPS>>]}]

(***************************************************************************)
(* C28 (future bodies are deferred): a pending assignment whose timestamp  *)
(* is greater than the step of the Simulator is not in the world; a tick   *)
(* at step k keeps the assignments with a timestamp greater than k in the  *)
(* pending list and out of the world, and inserts the other ones, which    *)
(* leave the list.                                                         *)
(***************************************************************************)
FutureDeferred ==
    [][/\ \A w \in Children : \A r \in DOMAIN sims'[w] :
             \A i \in DOMAIN sims'[w][r].pending_assignments :
                LET data == sims'[w][r].pending_assignments[i]
                IN  data.timestamp > sims'[w][r].step_id
                       => data.uuid \notin DOMAIN sims'[w][r].bodies
       /\ Ticked =>
             LET w == tick'.w
                 r == tick'.region
                 statics == wk[w].static_bodies
                 drained == sims[w][r].pending_assignments
                              \o SubSeq(statics, sims[w][r].static_bodies_added + 1,
                                        Len(statics))
                 retained == SeqToSet(sims'[w][r].pending_assignments)
             IN  \A i \in DOMAIN drained :
                    LET data == drained[i]
                    IN  IF data.timestamp > tick'.step_id
                        THEN /\ data \in retained
                             /\ data.uuid \notin tick'.owned
                             /\ data.uuid \notin DOMAIN sims'[w][r].bodies
                        ELSE /\ data \notin retained
                             /\ IF data.body_type = "Dynamic"
                                THEN data.uuid \in tick'.owned
                                ELSE data.uuid \in DOMAIN sims'[w][r].bodies]_vars

\* after the tick of step 0 the first body is in the world and the second
\* one, to appear at step 1, is still pending
FutureDeferredWitness ==
    /\ tick.valid /\ tick.step_id = 0 /\ tick.owned = {1}
    /\ Cell0 \in DOMAIN sims[1]
    /\ sims[1][Cell0].step_id = 0
    /\ DOMAIN sims[1][Cell0].bodies = {1}
    /\ Len(sims[1][Cell0].pending_assignments) = 1
    /\ sims[1][Cell0].pending_assignments[1].uuid = 2
    /\ sims[1][Cell0].pending_assignments[1].timestamp = 1

(***************************************************************************)
(* C30 (deduplication by UUID replacement): after a Simulator has resolved *)
(* its pending assignments, its body set holds, for every uuid of an       *)
(* assignment with a timestamp not greater than its step, exactly one      *)
(* body, the one made from the last such assignment of the list, and       *)
(* uuid2body gives its handle.  This is stated of the list every tick      *)
(* drains, followed by up to MaxArrivals more assignments of any uuid,     *)
(* timestamp and body type; the bodies that the tick steps are those of    *)
(* the body set after the list it drained.                                 *)
(***************************************************************************)
MaxArrivals == 2

Deduplication ==
    [][Ticked =>
         LET w == tick'.w
             r == tick'.region
             k == tick'.step_id
             statics == wk[w].static_bodies
             drained == sims[w][r].pending_assignments
                          \o SubSeq(statics, sims[w][r].static_bodies_added + 1,
                                    Len(statics))
             q == Sorted(DOMAIN sims[w][r].bodies)
             sim_state ==
                 [step_id |-> k,
                  bodies |-> [h \in DOMAIN q |->
                                [uuid |-> q[h], body |-> sims[w][r].bodies[q[h]]]],
                  uuid2body |-> [u \in DOMAIN sims[w][r].bodies |->
                                   CHOOSE h \in DOMAIN q : q[h] = u],
                  handles |-> Len(q)]
             arriving == {BodyAssignment(u, ts, bt) :
                             u \in 1..3, ts \in {0, k + 1},
                             bt \in {"Dynamic", "Static"}}
             due(pending) == {i \in DOMAIN pending : pending[i].timestamp <= k}
             holds(after, u) == {h \in DOMAIN after.bodies : after.bodies[h].uuid = u}
         IN  \A state \in {sim_state} :
               /\ \A n \in 0..MaxArrivals : \A more \in [1..n -> arriving] :
                    \A pending \in {drained \o more} :
                    \A after \in {resolve_pending_assignments(state, pending)} :
                       \A i \in due(pending) :
                          LET last == CHOOSE j \in due(pending) :
                                         /\ pending[j].uuid = pending[i].uuid
                                         /\ \A l \in due(pending) :
                                               pending[l].uuid = pending[i].uuid
                                                  => l <= j
                          IN  /\ Cardinality(holds(after, pending[i].uuid)) = 1
                              /\ pending[i].uuid \in DOMAIN after.uuid2body
                              /\ after.uuid2body[pending[i].uuid]
                                    \in holds(after, pending[i].uuid)
                              /\ after.bodies[after.uuid2body[pending[i].uuid]].body
                                    = NewBody(pending[last].body_type)
               /\ \A after \in {resolve_pending_assignments(state, drained)} :
                    tick'.owned =
                       {after.bodies[h].uuid :
                           h \in {x \in DOMAIN after.bodies :
                                     after.bodies[x].body.body_type = "Dynamic"}}]_vars

\* the Worker has got the floor twice, with the first and with the second
\* request of the client, and the Simulator of Cell0, which has drained both
\* assignments of it, holds the floor and the two bodies
DeduplicationWitness ==
    /\ tick.valid
    /\ Len(wk[1].static_bodies) = 2
    /\ wk[1].static_bodies[1].uuid = wk[1].static_bodies[2].uuid
    /\ Cell0 \in DOMAIN sims[1]
    /\ sims[1][Cell0].static_bodies_added = 2
    /\ sims[1][Cell0].pending_assignments = <<>>
    /\ DOMAIN sims[1][Cell0].bodies = 1..3
    /\ sims[1][Cell0].bodies[2].body_type = "Static"

(***************************************************************************)
(* C26 (Worker ack fold): a Worker that receives Step k sends it to each   *)
(* of its Simulators and waits for as many Acks; it acks its parent at     *)
(* once if it has no Simulator, and otherwise when it receives the last of *)
(* these Acks, and not before.  A Simulator it creates meanwhile gets no   *)
(* Step and is not waited for.  So the count of the Worker is the number   *)
(* of the steps its Simulators have been sent and not finished plus the    *)
(* Acks on their way to it, and an Ack never finds the count at zero.      *)
(***************************************************************************)
AckFold ==
    [][\A w \in Children :
          LET received ==
                  (IF WorkerRecvMain(w) THEN {Head(wk[w].mq)} ELSE {})
                  \cup (IF WorkerRecvMaster(w) THEN {Head(wk[w].zq_master)} ELSE {})
                  \cup (IF WorkerRecvChild(w) THEN {Head(wk[w].zq_child)} ELSE {})
                  \cup {Head(wk[w].zq_sims[src]) :
                           src \in {x \in DOMAIN wk[w].zq_sims : WorkerRecvSim(w, x)}}
              owed == {x \in (DOMAIN sims'[w]) \X (0..MaxQueue) :
                         IF x[2] = 0 THEN sims'[w][x[1]].pc = "tick"
                         ELSE x[2] <= steps_in(sims'[w][x[1]].chan)}
          IN  /\ \A message \in received :
                    CASE message.type = "Step" ->
                            /\ wk'[w].pending_acks = Cardinality(DOMAIN sims[w])
                            /\ DOMAIN sims'[w] = DOMAIN sims[w]
                            /\ \A r \in DOMAIN sims[w] :
                                  sims'[w][r].chan =
                                     Append(sims[w][r].chan, StepMsg(message.step_id))
                            /\ m' # m <=> DOMAIN sims[w] = {}
                      [] message.type = "Ack" ->
                            /\ wk[w].pending_acks > 0
                            /\ wk'[w].pending_acks = wk[w].pending_acks - 1
                            /\ m' # m <=> wk'[w].pending_acks = 0
                      [] OTHER ->
                            /\ wk'[w].pending_acks = wk[w].pending_acks
                            /\ m' = m
                            /\ \A r \in DOMAIN sims'[w] \ DOMAIN sims[w] :
                                  steps_in(sims'[w][r].chan) = 0
              /\ ~wk'[w].crashed
              /\ wk'[w].pending_acks =
                    Cardinality(owed) + Len(SelectSeq(wk'[w].mq, LAMBDA x : x.type = "Ack"))
      ]_vars

(***************************************************************************)
(* C27 (the Ack of a Simulator comes last): a tick of step k that posts    *)
(* its Ack has stored the watch set and the client snapshot of step k in   *)
(* the maps of the Worker and has sent an AssignIsland for every body it   *)
(* migrates, to the channel of the Worker's main thread ahead of the Ack   *)
(* for a local target.  Hence an AssignIsland of a Simulator that waits in *)
(* that channel has the Ack of its step behind it, the Worker that waits   *)
(* for no Ack has none left there, and in the channel of a Simulator no    *)
(* Step later than k is ahead of an AssignIsland of step k.                *)
(***************************************************************************)
AckComesLast ==
    [][/\ Ticked =>
            LET w == tick'.w
                r == tick'.region
                sim == sims'[w][r]
                old == Len(wk[w].mq)
                new == Len(wk'[w].mq)
                posted == {wk'[w].mq[i] : i \in (old + 1)..(new - 1)}
                published == UNION {SeqToSet(wk'[v].zq_sims[r]) :
                                      v \in {x \in Children : r \in DOMAIN wk'[x].zq_sims}}
            IN  /\ SubSeq(wk'[w].mq, 1, old) = wk[w].mq
                /\ IF sim.pc = "recv"
                   THEN /\ new > old
                        /\ wk'[w].mq[new] = AckMsg(tick'.step_id)
                        /\ \A message \in posted :
                              message.type = "AssignIsland" /\ message.origin = "sim"
                        /\ wk'[w].watch_sets[r] = tick'.watch
                        /\ wk'[w].client_object_sets[r].timestamp =
                              tick'.step_id * NUM_INTERNAL_STEPS
                        /\ \A u \in tick'.reassigned :
                              \E region \in DOMAIN sim.neighbors :
                                 \E message \in IF sim.neighbors[region].local
                                                 THEN posted ELSE published :
                                    /\ message.type = "AssignIsland"
                                    /\ message.region = region
                                    /\ BodyAssignment(u, tick'.step_id, "Dynamic")
                                          \in SeqToSet(message.bodies)
                   ELSE new = old
       /\ \A w \in Children :
            /\ \A i \in DOMAIN wk'[w].mq :
                  (wk'[w].mq[i].type = "AssignIsland" /\ wk'[w].mq[i].origin = "sim")
                     => /\ wk'[w].pending_acks > 0
                        /\ \E j \in DOMAIN wk'[w].mq :
                              /\ j > i
                              /\ wk'[w].mq[j] =
                                    AckMsg(wk'[w].mq[i].bodies[1].timestamp)
            /\ \A r \in DOMAIN sims'[w] : \A i, j \in DOMAIN sims'[w][r].chan :
                  LET chan == sims'[w][r].chan
                  IN  (i < j /\ chan[i].type = "Step"
                         /\ chan[j].type = "AssignIsland" /\ chan[j].origin = "sim")
                        => chan[i].step_id <= chan[j].bodies[1].timestamp
      ]_vars

\* the Simulator of Cell1 has finished step 1 and sent the first body to
\* Cell0: the AssignIsland waits in the channel of the main thread, ahead
\* of the Ack, and the watch set and the snapshot of the step are stored
AckComesLastWitness ==
    /\ tick.valid /\ tick.region = Cell1 /\ tick.reassigned = {1}
    /\ Len(wk[1].mq) >= 2
    /\ wk[1].mq[Len(wk[1].mq)] = AckMsg(tick.step_id)
    /\ wk[1].mq[Len(wk[1].mq) - 1].type = "AssignIsland"
    /\ wk[1].mq[Len(wk[1].mq) - 1].region = Cell0
    /\ wk[1].watch_sets[Cell1] = tick.watch
    /\ wk[1].client_object_sets[Cell1].timestamp = tick.step_id * NUM_INTERNAL_STEPS

(***************************************************************************)
(* C29 (watch-set read freshness): a tick of step k reads, for each of the *)
(* regions it watches, the watch set its Simulator has published last, as  *)
(* the Worker of that Simulator holds it when the tick starts; that        *)
(* publication is of step k - 1 or of a later step, and a region without   *)
(* publication is read as the empty set.                                   *)
(***************************************************************************)
ReadFreshness ==
    [][Ticked =>
         \A nbh \in tick'.read :
            LET held == wk[nbh.host].watch_sets
                seen == {o \in tick'.watched : o.region = nbh.region}
            IN  IF nbh.region \in DOMAIN held
                THEN /\ seen = {[region |-> nbh.region, aabb |-> o.aabb] :
                                   o \in held[nbh.region]}
                     /\ wk[nbh.host].client_object_sets[nbh.region].timestamp
                           >= (tick'.step_id - 1) * NUM_INTERNAL_STEPS
                ELSE seen = {}]_vars

(***************************************************************************)
(* C31 (a failed migration send is fatal for the tick): a tick of step k   *)
(* whose AssignIsland cannot be sent removes no body from the world of the *)
(* Simulator and posts nothing to the Worker; the Simulator never runs     *)
(* again, the Worker goes on waiting for its Ack, and the Master issues no *)
(* step after k.                                                           *)
(***************************************************************************)
SendFailureFatal ==
    [][/\ (Ticked /\ sims'[tick'.w][tick'.region].pc = "dead") =>
             /\ tick'.reassigned # {}
             /\ tick'.owned \subseteq DOMAIN sims'[tick'.w][tick'.region].bodies
             /\ wk'[tick'.w].mq = wk[tick'.w].mq
             /\ \A v \in Children : wk'[v].zq_sims = wk[v].zq_sims
       /\ \A w \in Children : \A r \in DOMAIN sims[w] :
             sims[w][r].pc = "dead" =>
                /\ sims'[w][r].pc = "dead"
                /\ sims'[w][r].bodies = sims[w][r].bodies
                /\ sims'[w][r].step_id = sims[w][r].step_id
                /\ wk'[w].pending_acks > 0
                /\ AcksOf(wk'[w].mq) = {}
                /\ m'.issued <= sims[w][r].step_id
                /\ m'.step_id <= sims[w][r].step_id]_vars

\* the Simulator of Cell0 could not send the body it migrates at step 1: it
\* is dead with the body in its world, the Worker waits for one Ack and the
\* Master is at step 1, with steps left to issue
SendFailureFatalWitness ==
    /\ tick.valid /\ tick.region = Cell0 /\ tick.step_id = 1 /\ tick.reassigned = {1}
    /\ sims[1][Cell0].pc = "dead"
    /\ 1 \in DOMAIN sims[1][Cell0].bodies
    /\ wk[1].pending_acks = 1
    /\ wk[1].mq = <<>> /\ wk[1].zq_child = <<>> /\ wk[2].zq_child = <<>>
    /\ wk[2].pending_acks = 0
    /\ m.issued = 1 /\ m.step_limit > 1

(***************************************************************************)
(* C32 (operations on a removed scene are rejected): once the scene is     *)
(* removed, every assign_runner and every insert_objects for it answers    *)
(* BAD_REQUEST and changes nothing else: no region assignment and no       *)
(* static body is recorded, no message is sent to a Worker.  This is said  *)
(* of the calls that could be made in every state and of the ones made: a  *)
(* request of the client, the start of a Simulator.                        *)
(***************************************************************************)
RemovedRejects ==
    [][LET Rejects ==
              m.exited =>
                 /\ \A region \in {Cell0, Cell1} :
                       assign_runner(Now, region) =
                          [st |-> Now, uuid |-> 0, status |-> "BAD_REQUEST"]
                 /\ \A bodies \in {RequestOnFloor(<<Inside0>>),
                                    <<[Request(<<Inside0>>)[1] EXCEPT !.uuid = 3]>>} :
                       insert_objects(Now, bodies, <<Cell0>>) =
                          [Now EXCEPT !.m.response = "BAD_REQUEST"]
       IN  /\ Rejects /\ Rejects'
           /\ (m.exited /\ inserted' # inserted) =>
                 /\ m' = [m EXCEPT !.response = "BAD_REQUEST"]
                 /\ ch' = ch /\ wk' = wk /\ sims' = sims
           /\ \A w \in Children : \A r \in DOMAIN sims[w] :
                 (m.exited /\ sims[w][r].pc = "init" /\ sims'[w][r].pc # "init") =>
                    /\ sims'[w][r].pc = "dead"
                    /\ m' = m /\ ch' = ch /\ wk' = wk]_vars

\* the client has removed the scene and then asked to insert a body, the
\* only request it made: nothing was recorded and no Worker got a message
RemovedRejectsWitness ==
    /\ m.exited /\ m.has_scene
    /\ inserted = {3}
    /\ m.response = "BAD_REQUEST"
    /\ m.static_bodies = <<>>
    /\ DOMAIN m.assigned = {}
    /\ \A w \in Children : DOMAIN sims[w] = {}

(***************************************************************************)
(* C33 (subdivision of the scene among the children): create_scene with C  *)
(* children, C >= 1, cuts the bounds into exactly C boxes that tile them    *)
(* (every box lies in the bounds, every cell of the grid drawn by the      *)
(* faces of the boxes lies in exactly one box), and the i-th child is      *)
(* paired with the i-th box: assign_runner gives a region whose center is  *)
(* inside the i-th box to the Worker of the i-th child.  The subdivision   *)
(* is stated for 1..MaxSubdivs children on several bounds, the pairing on  *)
(* the scene of every state.  Points are given by their doubled            *)
(* coordinates.                                                            *)
(***************************************************************************)
MaxSubdivs == 5

ComponentsSweep ==
    [][Ticked =>
         LET sim == sims'[tick'.w][tick'.region]
             bodies == [u \in tick'.owned \cup DOMAIN sim.bodies |->
                          IF u \in tick'.owned THEN tick'.before[u] ELSE sim.bodies[u]]
             Lo(S, k) == CHOOSE x \in {tick'.pose[u].swept.mins[k] : u \in S} :
                            \A u \in S : x <= tick'.pose[u].swept.mins[k]
             Hi(S, k) == CHOOSE x \in {tick'.pose[u].swept.maxs[k] : u \in S} :
                            \A u \in S : x >= tick'.pose[u].swept.maxs[k]
         IN  \A order \in Orders(DOMAIN bodies) :
             \A contacts \in {c \in SUBSET Pairs(tick'.owned) :
                                 calculate_connected_components(bodies, c)
                                    = tick'.components} :
             \A ccs \in {ConnectedComponents(bodies, tick'.pose, contacts, order)} :
                /\ {SeqToSet(ccs[i].bodies) : i \in DOMAIN ccs} = tick'.components
                /\ \A i \in DOMAIN ccs :
                      /\ ccs[i].bodies # <<>>
                      /\ Cardinality(SeqToSet(ccs[i].bodies)) = Len(ccs[i].bodies)
                      /\ \A j \in DOMAIN ccs :
                            i # j => SeqToSet(ccs[i].bodies) \cap SeqToSet(ccs[j].bodies) = {}
                /\ UNION {SeqToSet(ccs[i].bodies) : i \in DOMAIN ccs}
                      = dynamic_bodies(bodies)
                /\ \A i \in DOMAIN ccs :
                      ccs[i].swept_aabb =
                         Box([k \in Axes |-> Lo(SeqToSet(ccs[i].bodies), k)],
                             [k \in Axes |-> Hi(SeqToSet(ccs[i].bodies), k)])]_vars

(***************************************************************************)
(* C35 (pause): while the Master is paused no Step reaches a child or a    *)
(* Worker, not even when the ack of the step in flight comes in; and every *)
(* Step that is sent, after a resume as well, carries the id that follows  *)
(* the last id issued: stepping goes on with the next id, no id is issued  *)
(* a second time.                                                          *)
(***************************************************************************)
PauseResume ==
    [][LET sent(w) == steps_in(wk'[w].zq_child) - steps_in(wk[w].zq_child)
       IN  /\ (~m.running /\ ~m'.running) =>
                 /\ m'.issued = m.issued
                 /\ \A w \in Children : sent(w) <= 0
           /\ \A w \in Children :
                 sent(w) > 0 =>
                    /\ sent(w) = 1
                    /\ wk'[w].zq_child[Len(wk'[w].zq_child)] = StepMsg(m.issued + 1)
                    /\ m'.issued = m.issued + 1]_vars

(***************************************************************************)
(* C38 (consecutive step ids): the ids of the Steps the Master issues are  *)
(* 0, 1, 2, ...: the id the Master records as issued stays or grows by     *)
(* one, from 0 on, and every Step put on the queue of a Worker carries the *)
(* id that follows the last one issued before, whether the Step comes from *)
(* the ack chain, from a client input after an idle period or from a       *)
(* resume.                                                                 *)
(***************************************************************************)
ConsecutiveIds ==
    [][/\ m'.issued \in {m.issued, m.issued + 1}
       /\ \A w \in Children : \A i \in DOMAIN wk'[w].zq_child :
             (i > Len(wk[w].zq_child) /\ wk'[w].zq_child[i].type = "Step") =>
                /\ wk'[w].zq_child[i].step_id = m.issued + 1
                /\ wk'[w].zq_child[i].step_id = m'.issued]_vars

(***************************************************************************)
(* C39 (the assertion of the Worker): no Worker ever takes an Ack of a     *)
(* Simulator while its pending counter is 0 or less, that is, the          *)
(* assertion of the Ack arm of main_messages_loop has failed in no         *)
(* reachable state.                                                        *)
(***************************************************************************)
AssertionHolds == \A w \in Children : ~wk[w].crashed

(***************************************************************************)
(* C40 (no Step after the removal): once remove_scene has removed the      *)
(* scene, the Master issues no Step for it, and no child and no Worker is  *)
(* sent one, whatever acks of the step in flight at the removal come in    *)
(* afterwards.                                                             *)
(***************************************************************************)
StepsEndWithScene ==
    [][(m.exited /\ m.has_scene /\ ~m.has_per_node) =>
          /\ m'.issued = m.issued
          /\ \A c \in Children :
                /\ ch'[c].step_id = ch[c].step_id
                /\ steps_in(wk'[c].zq_child) <= steps_in(wk[c].zq_child)]_vars

(***************************************************************************)
(* C37 (no double integration): a body is stepped for a step id by one     *)
(* Simulator at most.  Two ticks that follow each other, made for the same *)
(* step id by two Simulators, step no body in common; in particular the    *)
(* bodies the first one migrated at the end of its tick, sent with that    *)
(* step id as timestamp, are not among the bodies the second one stepped,  *)
(* in whatever order the AssignIsland and the Step reached its Worker.     *)
(***************************************************************************)
SingleIntegration ==
    [][(/\ Ticked /\ tick.valid
        /\ tick'.step_id = tick.step_id
        /\ <<tick'.w, tick'.region>> # <<tick.w, tick.region>>) =>
          /\ tick'.owned \cap tick.owned = {}
          /\ tick'.owned \cap tick.reassigned = {}]_vars

(***************************************************************************)
(* C36 (scenes are isolated in the step protocol): with a second scene on  *)
(* the Master, the Steps of the first scene follow from its own inputs and *)
(* acks.  An input that raises its limit while it is idle, with steps      *)
(* remaining, issues its next Step, whatever the other scene does; the ack *)
(* that ends one of its steps issues the next one as long as the limit     *)
(* allows, also when the other scene has reached its limit; and no Step is *)
(* sent for it with the id of a Step already issued.                       *)
(***************************************************************************)
SceneIsolation ==
    [][/\ (/\ m'.step_limit > m.step_limit
           /\ m.issued < m.step_id
           /\ m.step_id < m'.step_limit) => m'.issued = m.step_id
       /\ (/\ m'.step_id = m.step_id + 1
           /\ m'.step_id <= m.step_limit) => m'.issued = m'.step_id
       /\ \A w \in Children :
             steps_in(wk'[w].zq_child) > steps_in(wk[w].zq_child) =>
                m'.issued > m.issued]_vars

====
